---- MODULE Spec2Model ----
(***************************************************************************)
(* Model of the EHR tabular query engine of NextMed:                       *)
(*   - the EHR data service (record parser, dataset cache, statistics),    *)
(*     lib/ehr-data-service, found in src/pkgs/frontend/lib/contract/      *)
(*     types.ts lines 107-608;                                             *)
(*   - the query route (POST filter / sql / aggregate, GET statistics),    *)
(*     found in src/unnamed/part_001 lines 60-516.                         *)
(*                                                                         *)
(* JavaScript strings are sequences of one-character strings, objects are  *)
(* records whose DOMAIN holds exactly the properties that are present, and *)
(* `T | null` values are Null or Some(v).                                  *)
(***************************************************************************)
EXTENDS Integers, Sequences, FiniteSets, TLC

(***************************************************************************)
(* JavaScript values                                                       *)
(***************************************************************************)
Null == <<>>
Some(v) == <<v>>
IsNull(x) == x = Null
Val(x) == x[1]

Has(obj, f) == f \in DOMAIN obj

Min(a, b) == IF a < b THEN a ELSE b

Range(s) == {s[i] : i \in DOMAIN s}

\* Array.prototype.slice(0, end) for end >= 0
Take(s, n) == SubSeq(s, 1, Min(Len(s), n))

\* The elements of a finite set of integers in increasing order
SortedSeq(S) ==
  [k \in 1..Cardinality(S) |->
     CHOOSE x \in S : Cardinality({y \in S : y < x}) = k - 1]

\* Array.prototype.filter: the elements that pass, in their order
Filter(s, Keep(_)) ==
  LET idx == SortedSeq({i \in DOMAIN s : Keep(s[i])})
  IN [k \in DOMAIN idx |-> s[idx[k]]]

(***************************************************************************)
(* Strings                                                                 *)
(***************************************************************************)
UpperLetters ==
  <<"A","B","C","D","E","F","G","H","I","J","K","L","M",
    "N","O","P","Q","R","S","T","U","V","W","X","Y","Z">>
LowerLetters ==
  <<"a","b","c","d","e","f","g","h","i","j","k","l","m",
    "n","o","p","q","r","s","t","u","v","w","x","y","z">>
DigitChars == <<"0","1","2","3","4","5","6","7","8","9">>
WhiteSpace == {" ", "\t", "\n", "\r"}

IndexIn(c, chars) ==
  IF \E i \in DOMAIN chars : chars[i] = c
  THEN CHOOSE i \in DOMAIN chars : chars[i] = c
  ELSE 0

toLowerChar(c) ==
  LET i == IndexIn(c, UpperLetters) IN IF i = 0 THEN c ELSE LowerLetters[i]

\* String.prototype.toLowerCase
toLowerCase(s) == [i \in DOMAIN s |-> toLowerChar(s[i])]

\* String.prototype.includes
includes(s, t) ==
  \E i \in 0..(Len(s) - Len(t)) : SubSeq(s, i + 1, i + Len(t)) = t

\* String.prototype.indexOf for a one-character needle, 0-based, -1 if absent
indexOf(s, c) ==
  IF \E i \in DOMAIN s : s[i] = c
  THEN (CHOOSE i \in DOMAIN s : s[i] = c /\ \A j \in 1..(i - 1) : s[j] # c) - 1
  ELSE -1

\* String.prototype.trimStart, trimEnd, trim
trimStart(s) ==
  LET ink == {i \in DOMAIN s : s[i] \notin WhiteSpace}
  IN IF ink = {} THEN <<>>
     ELSE SubSeq(s, CHOOSE i \in ink : \A j \in ink : i <= j, Len(s))

trimEnd(s) ==
  LET ink == {i \in DOMAIN s : s[i] \notin WhiteSpace}
  IN IF ink = {} THEN <<>>
     ELSE SubSeq(s, 1, CHOOSE i \in ink : \A j \in ink : i >= j)

trim(s) == trimEnd(trimStart(s))

\* The pieces of s between the positions cuts (increasing), which are left out
piecesAt(s, cuts) ==
  [k \in 1..(Len(cuts) + 1) |->
     SubSeq(s, (IF k = 1 THEN 0 ELSE cuts[k - 1]) + 1,
               (IF k > Len(cuts) THEN Len(s) + 1 ELSE cuts[k]) - 1)]

\* String.prototype.split for a one-character separator
split(s, sep) == piecesAt(s, SortedSeq({i \in DOMAIN s : s[i] = sep}))

\* Number.parseInt(s, 10): NaN is Null, an integer n is Some(n)
RECURSIVE digitsValue(_, _, _)
digitsValue(s, acc, seen) ==
  IF s # <<>> /\ IndexIn(Head(s), DigitChars) # 0
  THEN digitsValue(Tail(s), acc * 10 + (IndexIn(Head(s), DigitChars) - 1), TRUE)
  ELSE IF seen THEN Some(acc) ELSE Null

parseInt(str) ==
  LET s == trimStart(str)
      neg == s # <<>> /\ Head(s) = "-"
      body == IF s # <<>> /\ Head(s) \in {"-", "+"} THEN Tail(s) ELSE s
      v == digitsValue(body, 0, FALSE)
  IN IF IsNull(v) THEN Null ELSE Some(IF neg THEN 0 - Val(v) ELSE Val(v))

(***************************************************************************)
(* Record parser                                                           *)
(***************************************************************************)
sNone == <<"N","o","n","e">>

NotQuote(c) == c # "\""

\* inQuotes when the loop of parseCSVRow reaches position i: every quote
\* before it has toggled the flag
inQuotesAt(row, i) ==
  Cardinality({j \in 1..(i - 1) : row[j] = "\""}) % 2 = 1

\* parseCSVRow: a comma outside quotes ends a token, quotes are dropped,
\* every token is trimmed
parseCSVRow(row) ==
  LET commas == SortedSeq({i \in DOMAIN row :
                             row[i] = "," /\ ~inQuotesAt(row, i)})
      pieces == piecesAt(row, commas)
  IN [k \in DOMAIN pieces |-> trim(Filter(pieces[k], NotQuote))]

NonEmpty(s) == s # <<>>

\* parseListField: comma-separated items, trimmed, empty items dropped
parseListField(value) ==
  IF value = <<>> \/ value = sNone THEN <<>>
  ELSE LET items == split(value, ",")
       IN Filter([i \in DOMAIN items |-> trim(items[i])], NonEmpty)

\* The matches of /\[([^\]]+)\]/g, brackets removed: from each "[" the
\* longest run of characters other than "]", when it is not empty and is
\* followed by "]"; the scan resumes after a match, or at the next character.
RECURSIVE bracketGroups(_)
bracketGroups(s) ==
  IF indexOf(s, "[") = -1 THEN <<>>
  ELSE LET rest == SubSeq(s, indexOf(s, "[") + 2, Len(s))
           close == indexOf(rest, "]")
       IN IF close >= 1
          THEN <<SubSeq(rest, 1, close)>>
                 \o bracketGroups(SubSeq(rest, close + 2, Len(rest)))
          ELSE bracketGroups(rest)

visitOf(content) ==
  LET colonIndex == indexOf(content, ":")
  IN [date |-> trim(SubSeq(content, 1, colonIndex)),
      diagnosis |-> trim(SubSeq(content, colonIndex + 2, Len(content)))]

\* visits.push without the test colonIndex > -1
AnyGroup(content) == TRUE

HasColon(content) == indexOf(content, ":") > -1

parsePastVisits(visitStr) ==
  IF visitStr = <<>> \/ visitStr = sNone THEN <<>>
  ELSE LET groups == Filter(bracketGroups(visitStr), HasColon)
       IN [i \in DOMAIN groups |-> visitOf(groups[i])]

MIN_FIELDS == 10

\* Number.parseInt(fields[1], 10) || 0
ageOf(field) ==
  LET v == parseInt(field) IN IF IsNull(v) THEN 0 ELSE Val(v)

recordOf(fields) ==
  [fullName |-> fields[1],
   age |-> ageOf(fields[2]),
   gender |-> fields[3],
   region |-> fields[4],
   address |-> fields[5],
   symptoms |-> parseListField(fields[6]),
   medicationHistory |-> parseListField(fields[7]),
   pastVisits |-> parsePastVisits(fields[8]),
   phoneNumber |-> fields[9],
   insuranceId |-> fields[10]]

EnoughFields(fields) == Len(fields) >= MIN_FIELDS

NotBlank(line) == trim(line) # <<>>

\* parseContent without lines.slice(1): the header is parsed as a record
parseContentKeepsHeader(lines) ==
  LET kept == Filter(lines, NotBlank)
      rows == [i \in DOMAIN kept |-> parseCSVRow(kept[i])]
      good == Filter(rows, EnoughFields)
  IN [i \in DOMAIN good |-> recordOf(good[i])]

\* The body of loadEHRData's try block up to the publication: the lines of
\* the file that are not blank, the header dropped, one record per line
\* with at least MIN_FIELDS tokens.
parseContent(lines) ==
  LET kept == Filter(lines, NotBlank)
      dataLines == Tail(kept)
      rows == [i \in DOMAIN dataLines |-> parseCSVRow(dataLines[i])]
      good == Filter(rows, EnoughFields)
  IN IF kept = <<>> THEN <<>> ELSE [i \in DOMAIN good |-> recordOf(good[i])]

(***************************************************************************)
(* The source file public/demo-data/nextmed_ehr_demo_300k.csv: the texts   *)
(* it may hold, each as its lines (the text split at line breaks).         *)
(***************************************************************************)
sMale == <<"M","a","l","e">>
sFemale == <<"F","e","m","a","l","e">>
sfemale == <<"f","e","m","a","l","e">>
sKanto == <<"K","a","n","t","o">>
sKansai == <<"K","a","n","s","a","i">>
sDiabetes == <<"D","i","a","b","e","t","e","s">>
sAsthma == <<"A","s","t","h","m","a">>
sInsulin == <<"I","n","s","u","l","i","n">>
sAspirin == <<"A","s","p","i","r","i","n">>
sFever == <<"F","e","v","e","r">>
sFlu == <<"F","l","u">>
sTwoConds == <<"D","i","a","b","e","t","e","s",","," ","A","s","t","h","m","a">>
sTwoMeds == <<"I","n","s","u","l","i","n",","," ","A","s","p","i","r","i","n">>
sVisitsB == <<"[","2","0","2","4","-","1","0","-","0","6",":"," ","F","e","v","e","r","]",","," ","[","2","0","2","4","-","0","8","-","1","6",":"," ","F","l","u","]">>
sVisitsC == <<"[","2","0","2","3","-","0","1","-","0","2",":"," ","F","l","u","]">>
\* a date without '-', a date that begins with '-', a group with two colons
sVisitsF == <<"[","n","o","d","a","s","h",":"," ","F","l","u","]",","," ","[","-","0","3","-","0","4",":"," ","C","o","l","d","]",","," ","[","2","0","2","4","-","0","1","-","0","1",":"," ","F","l","u",":"," ","m","i","l","d","]">>
sVisitsD == <<"[","n","o"," ","c","o","l","o","n","]",","," ","[","2","0","2","4","-","0","3","-","0","4",":"," ","F","e","v","e","r","]">>

RECURSIVE Csv(_)
Csv(tokens) ==
  IF Len(tokens) = 1 THEN tokens[1]
  ELSE tokens[1] \o <<",">> \o Csv(Tail(tokens))

Quoted(s) == <<"\"">> \o s \o <<"\"">>

\* the header names as many columns as a record has fields
HeaderLine ==
  Csv(<<<<"n">>, <<"a">>, <<"g">>, <<"r">>, <<"d">>, <<"s">>, <<"m">>,
        <<"v">>, <<"p">>, <<"i">>>>)

LineA ==
  Csv(<<<<"A">>, <<"1","0">>, sMale, sKanto, <<"x">>, sNone, sNone, sNone,
        <<"1">>, <<"i">>>>)
LineB ==
  Csv(<<<<"B">>, <<"4","5">>, sFemale, sKansai, <<"x">>, Quoted(sTwoConds),
        sInsulin, Quoted(sVisitsB), <<"2">>, <<"j">>>>)
LineC ==
  Csv(<<<<"C">>, <<"7","0">>, sMale, sKanto, <<"x">>, sDiabetes,
        Quoted(sTwoMeds), sVisitsC, <<"3">>, <<"k">>>>)
\* an age that is no number, a lower-case gender, a visit group without colon
LineD ==
  Csv(<<<<"D">>, <<"?">>, sfemale, sKanto, <<"x">>, sAsthma, sNone,
        Quoted(sVisitsD), <<"4">>, <<"l">>>>)
\* 21 conditions, 21 medications and 21 visits of 21 diagnoses, one of them
\* the code 250; then a record that repeats the last of each
sManyKeys == <<"a",","," ","b",","," ","c",","," ","d",","," ","e",","," ","f",","," ","g",","," ","h",","," ","i",","," ","j",","," ","k",","," ","l",","," ","m",","," ","n",","," ","o",","," ","p",","," ","q",","," ","r",","," ","s",","," ","t",","," ","u">>
sManyVisits == <<"[","1","-","1",":"," ","2","5","0","]",","," ","[","1","-","1",":"," ","b","]",","," ","[","1","-","1",":"," ","c","]",","," ","[","1","-","1",":"," ","d","]",","," ","[","1","-","1",":"," ","e","]",","," ","[","1","-","1",":"," ","f","]",","," ","[","1","-","1",":"," ","g","]",","," ","[","1","-","1",":"," ","h","]",","," ","[","1","-","1",":"," ","i","]",","," ","[","1","-","1",":"," ","j","]",","," ","[","1","-","1",":"," ","k","]",","," ","[","1","-","1",":"," ","l","]",","," ","[","1","-","1",":"," ","m","]",","," ","[","1","-","1",":"," ","n","]",","," ","[","1","-","1",":"," ","o","]",","," ","[","1","-","1",":"," ","p","]",","," ","[","1","-","1",":"," ","q","]",","," ","[","1","-","1",":"," ","r","]",","," ","[","1","-","1",":"," ","s","]",","," ","[","1","-","1",":"," ","t","]",","," ","[","1","-","1",":"," ","u","]">>
sLastVisit == <<"[","1","-","2",":"," ","u","]">>
LineG ==
  Csv(<<<<"G">>, <<"5","0">>, sMale, sKanto, <<"x">>, Quoted(sManyKeys),
        Quoted(sManyKeys), Quoted(sManyVisits), <<"6">>, <<"n">>>>)
LineH ==
  Csv(<<<<"H">>, <<"6","1">>, sFemale, sKansai, <<"x">>, <<"u">>, <<"u">>,
        sLastVisit, <<"7">>, <<"o">>>>)
LineF ==
  Csv(<<<<"F">>, <<"3","0">>, sMale, sKansai, <<"x">>, sNone, sNone,
        Quoted(sVisitsF), <<"5">>, <<"m">>>>)
\* a row with fewer than MIN_FIELDS tokens
LineShort == Csv(<<<<"E">>, <<"3","0">>, sMale>>)
LineBlank == <<" ", "\r">>

Contents ==
  << <<HeaderLine, LineA, LineB, LineC>>,
     <<HeaderLine, LineD, LineBlank, LineShort, LineC>>,
     <<HeaderLine>>,
     <<HeaderLine, LineF, LineF>>,
     <<HeaderLine, LineG, LineH>> >>

\* readFile fails
Unreadable == 0
Sources == {Unreadable} \cup DOMAIN Contents

\* parseContent of every text, evaluated once
Parsed == [i \in DOMAIN Contents |-> parseContent(Contents[i])]

(***************************************************************************)
(* Objects used as string-keyed counters (Record<string, number>): the     *)
(* sequence of <<key, count>> entries in property order.  No key of the    *)
(* model is an integer-like string except the years of visitsByYear.       *)
(***************************************************************************)
EmptyObject == <<>>

Keys(obj) == [i \in DOMAIN obj |-> obj[i][1]]

\* obj[key] || 0
CountOf(obj, key) ==
  IF \E i \in DOMAIN obj : obj[i][1] = key
  THEN (CHOOSE e \in Range(obj) : e[1] = key)[2]
  ELSE 0

\* The sum of the counts of an object
RECURSIVE SumCounts(_)
SumCounts(obj) ==
  IF obj = <<>> THEN 0 ELSE Head(obj)[2] + SumCounts(Tail(obj))

\* The order in which an object lists its properties: integer-like keys
\* come first, in increasing numeric order, then the others as inserted
IsIndexKey(key) ==
  /\ key # <<>>
  /\ \A i \in DOMAIN key : IndexIn(key[i], DigitChars) # 0
  /\ (Len(key) > 1 => key[1] # "0")

propertyOrder(obj) ==
  LET num == {i \in DOMAIN obj : IsIndexKey(obj[i][1])}
      rank(i) ==
        IF i \in num
        THEN Cardinality({j \in num :
               Val(parseInt(obj[j][1])) < Val(parseInt(obj[i][1]))})
        ELSE Cardinality(num)
               + Cardinality({j \in DOMAIN obj \ num : j < i})
  IN [k \in DOMAIN obj |-> obj[CHOOSE i \in DOMAIN obj : rank(i) = k - 1]]

\* A tally that never adds: obj[key] = 1
tallyNoIncrement(keys) ==
  LET first == SortedSeq({i \in DOMAIN keys :
                            \A j \in 1..(i - 1) : keys[j] # keys[i]})
  IN [k \in DOMAIN first |-> <<keys[first[k]], 1>>]

\* obj[key] = (obj[key] || 0) + 1, once for every key of keys in turn:
\* a key enters the object when it is first seen, and the object lists its
\* properties in property order
tally(keys) ==
  LET first == SortedSeq({i \in DOMAIN keys :
                            \A j \in 1..(i - 1) : keys[j] # keys[i]})
  IN propertyOrder(
       [k \in DOMAIN first |->
          <<keys[first[k]],
            Cardinality({i \in DOMAIN keys : keys[i] = keys[first[k]]})>>])

\* Object.entries(obj).sort((a, b) => b[1] - a[1]): descending by count,
\* entries of equal count in their former order (the sort is stable)
sortByCountDesc(obj) ==
  LET rank(i) ==
        Cardinality({j \in DOMAIN obj :
                       obj[j][2] > obj[i][2]
                       \/ (obj[j][2] = obj[i][2] /\ j < i)})
  IN [k \in DOMAIN obj |-> obj[CHOOSE i \in DOMAIN obj : rank(i) = k - 1]]

\* All elements of the sequences of a sequence, in order
RECURSIVE Flatten(_)
Flatten(ss) == IF ss = <<>> THEN <<>> ELSE Head(ss) \o Flatten(Tail(ss))

(***************************************************************************)
(* Statistics aggregator (getEHRStatistics, lines 314-412)                 *)
(***************************************************************************)
s0to17 == <<"0","-","1","7">>
s18to29 == <<"1","8","-","2","9">>
s30to44 == <<"3","0","-","4","4">>
s45to59 == <<"4","5","-","5","9">>
s60to74 == <<"6","0","-","7","4">>
s75plus == <<"7","5","+">>

getAgeGroup(age) ==
  IF age < 18 THEN s0to17
  ELSE IF age < 30 THEN s18to29
  ELSE IF age < 45 THEN s30to44
  ELSE IF age < 60 THEN s45to59
  ELSE IF age < 75 THEN s60to74
  ELSE s75plus

TOP_DEFAULT == 20
TOP_REGIONS == 30

\* Object.fromEntries(Object.entries(obj).sort(...).slice(0, limit)): the
\* entries kept are those of the sorted list, listed as an object lists them
sortAndLimit(obj, limit) == propertyOrder(Take(sortByCountDesc(obj), limit))

\* visit.date.split("-")[0]
yearOf(visit) == split(visit.date, "-")[1]

\* Math.round((totalVisits / n) * 100) / 100, in hundredths
avgVisits(totalVisits, n) ==
  IF n > 0 THEN (200 * totalVisits + n) \div (2 * n) ELSE 0

OnMedication(r) == Len(r.medicationHistory) > 0
\* patientsNoMedication++ outside the else branch
CountedAnyway(r) == TRUE
NoMedication(r) == ~OnMedication(r)

computeStatistics(records, at) ==
  LET visits == Flatten([i \in DOMAIN records |-> records[i].pastVisits])
      years == Filter([i \in DOMAIN visits |-> yearOf(visits[i])], NonEmpty)
  IN [totalRecords |-> Len(records),
      lastUpdated |-> at,
      demographics |->
        [ageDistribution |->
           tally([i \in DOMAIN records |-> getAgeGroup(records[i].age)]),
         genderDistribution |->
           tally([i \in DOMAIN records |-> records[i].gender]),
         regionDistribution |->
           sortAndLimit(tally([i \in DOMAIN records |-> records[i].region]),
                        TOP_REGIONS)],
      conditions |->
        [chronicConditions |->
           sortAndLimit(
             tally(Flatten([i \in DOMAIN records |-> records[i].symptoms])),
             TOP_DEFAULT),
         topDiagnoses |->
           sortAndLimit(
             tally([i \in DOMAIN visits |-> visits[i].diagnosis]),
             TOP_DEFAULT)],
      medications |->
        [topMedications |->
           sortAndLimit(
             tally(Flatten([i \in DOMAIN records |->
                              records[i].medicationHistory])),
             TOP_DEFAULT),
         patientsOnMedication |-> Len(Filter(records, OnMedication)),
         patientsNoMedication |-> Len(Filter(records, NoMedication))],
      visitStats |->
        [totalVisits |-> Len(visits),
         avgVisitsPerPatient |-> avgVisits(Len(visits), Len(records)),
         visitsByYear |-> propertyOrder(tally(years))]]

(***************************************************************************)
(* searchRecords (lines 421-480): options holds every property, the value  *)
(* of one that is undefined being Null                                     *)
(***************************************************************************)
\* if (value): a string that is neither undefined nor empty
IsSet(o) == ~IsNull(o) /\ Val(o) # <<>>

\* Array.prototype.slice(0, end)
slice0(s, end) ==
  IF end >= 0 THEN Take(s, end)
  ELSE SubSeq(s, 1, IF Len(s) + end > 0 THEN Len(s) + end ELSE 0)

hasCondition(r, lower) ==
  \E i \in DOMAIN r.symptoms : includes(toLowerCase(r.symptoms[i]), lower)
hasMedication(r, lower) ==
  \E i \in DOMAIN r.medicationHistory :
     includes(toLowerCase(r.medicationHistory[i]), lower)
inRegion(r, lower) == includes(toLowerCase(r.region), lower)
isGender(r, lower) == toLowerCase(r.gender) = lower
hasDiagnosis(r, lower) ==
  \E i \in DOMAIN r.pastVisits :
     includes(toLowerCase(r.pastVisits[i].diagnosis), lower)

SEARCH_LIMIT == 50

\* results = results.filter(...) when the option is given: the seven filters
byCondition(option, records) ==
  IF IsSet(option)
  THEN Filter(records, LAMBDA r : hasCondition(r, toLowerCase(Val(option))))
  ELSE records

byMedication(option, records) ==
  IF IsSet(option)
  THEN Filter(records, LAMBDA r : hasMedication(r, toLowerCase(Val(option))))
  ELSE records

byRegion(option, records) ==
  IF IsSet(option)
  THEN Filter(records, LAMBDA r : inRegion(r, toLowerCase(Val(option))))
  ELSE records

byAgeMin(option, records) ==
  IF ~IsNull(option)
  THEN Filter(records, LAMBDA r : r.age >= Val(option)) ELSE records

\* An upper bound that leaves out the bound itself
byAgeMaxExclusive(option, records) ==
  IF ~IsNull(option)
  THEN Filter(records, LAMBDA r : r.age < Val(option)) ELSE records

byAgeMax(option, records) ==
  IF ~IsNull(option)
  THEN Filter(records, LAMBDA r : r.age <= Val(option)) ELSE records

byGender(option, records) ==
  IF IsSet(option)
  THEN Filter(records, LAMBDA r : isGender(r, toLowerCase(Val(option))))
  ELSE records

byDiagnosis(option, records) ==
  IF IsSet(option)
  THEN Filter(records, LAMBDA r : hasDiagnosis(r, toLowerCase(Val(option))))
  ELSE records

searchFiltered(options, records) ==
  byDiagnosis(options.diagnosis,
    byGender(options.gender,
      byAgeMax(options.ageMax,
        byAgeMin(options.ageMin,
          byRegion(options.region,
            byMedication(options.medication,
              byCondition(options.condition, records)))))))

\* options.limit || 50
searchLimit(options) ==
  IF IsNull(options.limit) \/ Val(options.limit) = 0
  THEN SEARCH_LIMIT ELSE Val(options.limit)

searchRecords(options, records) ==
  slice0(searchFiltered(options, records), searchLimit(options))

(***************************************************************************)
(* The query route: executeFilterQuery (lines 197-249)                     *)
(***************************************************************************)
sAll == <<"a","l","l">>

DEFAULT_LIMIT == 100

\* A conversion that takes "all" for a value to look for
sentinelKeepsAll(filters, f) ==
  IF Has(filters, f) /\ filters[f] # <<>> THEN Some(filters[f]) ELSE Null

\* filters.f && filters.f !== "all" ? filters.f : undefined
sentinel(filters, f) ==
  IF Has(filters, f) /\ filters[f] # <<>> /\ filters[f] # sAll
  THEN Some(filters[f]) ELSE Null

optional(obj, f) == IF Has(obj, f) THEN Some(obj[f]) ELSE Null

filterOptions(request) ==
  [condition |-> sentinel(request.filters, "condition"),
   medication |-> sentinel(request.filters, "medication"),
   region |-> sentinel(request.filters, "region"),
   gender |-> sentinel(request.filters, "gender"),
   diagnosis |-> sentinel(request.filters, "diagnosis"),
   ageMin |-> optional(request.filters, "ageMin"),
   ageMax |-> optional(request.filters, "ageMax"),
   limit |-> Some(IF Has(request, "limit") THEN request.limit
                  ELSE DEFAULT_LIMIT)]

\* A response that reports success and an error at once
filterResponseWithError(found) ==
  [success |-> TRUE, error |-> "Filter query failed",
   data |-> [records |-> found, stats |-> [totalMatched |-> Len(found)]]]

\* The response of executeFilterQuery once loadEHRData has returned records.
\* stats.queryTime, a wall-clock duration, is left out of every response.
filterResponse(found) ==
  [success |-> TRUE,
   data |-> [records |-> found, stats |-> [totalMatched |-> Len(found)]]]

executeFilterQuery(request, records) ==
  filterResponse(searchRecords(filterOptions(request), records))

(***************************************************************************)
(* executeAggregateQuery (lines 254-339)                                   *)
(***************************************************************************)
s0to19 == <<"0","-","1","9">>
s20to39 == <<"2","0","-","3","9">>
s40to59 == <<"4","0","-","5","9">>
s60to79 == <<"6","0","-","7","9">>
s80plus == <<"8","0","+">>
sUnknown == <<"u","n","k","n","o","w","n">>

\* getAgeGroup of the route (lines 186-192)
routeAgeGroup(age) ==
  IF age < 20 THEN s0to19
  ELSE IF age < 40 THEN s20to39
  ELSE IF age < 60 THEN s40to59
  ELSE IF age < 80 THEN s60to79
  ELSE s80plus

\* filter?.f
aggregateFilter(request, f) ==
  IF Has(request, "filter") THEN optional(request.filter, f) ELSE Null

aggregateFiltered(request, allRecords) ==
  byGender(aggregateFilter(request, "gender"),
    byRegion(aggregateFilter(request, "region"),
      byCondition(aggregateFilter(request, "condition"), allRecords)))

\* The keys the aggregation loop counts, in the order it counts them
aggregateKeys(groupBy, records) ==
  IF groupBy = Some("age")
  THEN [i \in DOMAIN records |-> routeAgeGroup(records[i].age)]
  ELSE IF groupBy = Some("gender")
  THEN [i \in DOMAIN records |-> records[i].gender]
  ELSE IF groupBy = Some("region")
  THEN [i \in DOMAIN records |-> records[i].region]
  ELSE IF groupBy = Some("condition")
  THEN Flatten([i \in DOMAIN records |-> records[i].symptoms])
  ELSE IF groupBy = Some("medication")
  THEN Flatten([i \in DOMAIN records |-> records[i].medicationHistory])
  ELSE [i \in DOMAIN records |-> sUnknown]

aggregateResponse(groupBy, filteredRecords) ==
  [success |-> TRUE,
   data |-> [aggregations |->
               propertyOrder(sortByCountDesc(
                 tally(aggregateKeys(groupBy, filteredRecords)))),
             stats |-> [totalMatched |-> Len(filteredRecords)]]]

executeAggregateQuery(request, allRecords) ==
  aggregateResponse(optional(request, "groupBy"),
                    aggregateFiltered(request, allRecords))

(***************************************************************************)
(* parseSimpleSQL (lines 123-181).  Each regular expression is searched as *)
(* JavaScript searches it: the leftmost start, greedy quantifiers longest  *)
(* first, lazy ones shortest first.                                        *)
(***************************************************************************)
LineTerminators == {"\n", "\r"}

MinOf(S) == CHOOSE x \in S : \A y \in S : x <= y
MaxOf(S) == CHOOSE x \in S : \A y \in S : x >= y

\* The least and the greatest of a set of positions, 0 for the empty set
MinOrZero(S) == IF S = {} THEN 0 ELSE MinOf(S)
MaxOrZero(S) == IF S = {} THEN 0 ELSE MaxOf(S)

\* \w
IsWordChar(c) ==
  \/ IndexIn(c, UpperLetters) # 0
  \/ IndexIn(c, LowerLetters) # 0
  \/ IndexIn(c, DigitChars) # 0
  \/ c = "_"

\* The length of the longest run of characters of s from position i on
\* that all satisfy In
runFrom(s, i, In(_)) ==
  IF i > Len(s) THEN 0
  ELSE MinOf({j \in i..(Len(s) + 1) :
                IF j > Len(s) THEN TRUE ELSE ~In(s[j])}) - i

IsSpace(c) == c \in WhiteSpace
IsDigit(c) == IndexIn(c, DigitChars) # 0
NotQuoteChar(c) == c \notin {"'", "\""}

\* The position after the word characters, and after the white space, that
\* stand at position i
wordEnd(s, i) == i + runFrom(s, i, IsWordChar)
skipSpaces(s, i) == i + runFrom(s, i, IsSpace)

\* The keyword (given in lower case) stands at position i of s, in any case
keywordAt(s, i, word) ==
  /\ i >= 1
  /\ i + Len(word) - 1 <= Len(s)
  /\ \A j \in DOMAIN word : toLowerChar(s[i + j - 1]) = word[j]

kwSelect == <<"s","e","l","e","c","t">>
kwFrom == <<"f","r","o","m">>
kwWhere == <<"w","h","e","r","e">>
kwGroup == <<"g","r","o","u","p">>
kwOrder == <<"o","r","d","e","r">>
kwLimit == <<"l","i","m","i","t">>
kwBy == <<"b","y">>
kwAnd == <<"a","n","d">>
kwLike == <<"l","i","k","e">>

\* \s+ followed by the keyword, at position i
spacedKeywordAt(s, i, word) ==
  \E k \in 1..runFrom(s, i, IsSpace) : keywordAt(s, i + k, word)

\* The result of String.prototype.match for a pattern whose match from the
\* start i is At(s, i), Null when it has none: the match of the leftmost start
FirstMatch(s, At(_, _)) ==
  LET starts == {i \in DOMAIN s : ~IsNull(At(s, i))}
  IN IF starts = {} THEN Null ELSE At(s, MinOf(starts))

\* The n characters of s from position a on, Null for n = 0
captureAt(s, a, n) == IF n = 0 THEN Null ELSE Some(SubSeq(s, a, a + n - 1))

\* (.+?) from position a on, followed by what End tells: the length of the
\* shortest run of characters other than line terminators after which End
\* holds, 0 if there is none
lazyRun(s, a, End(_, _)) ==
  MinOrZero({n \in 1..(Len(s) - a + 1) :
               /\ \A j \in a..(a + n - 1) : s[j] \notin LineTerminators
               /\ End(s, a + n)})

\* \s+(.+?) from position b on, followed by what End tells: the white space
\* is taken as long as the rest still matches
clauseAfter(s, b, k, End(_, _)) ==
  IF k = 0 THEN Null ELSE captureAt(s, b + k, lazyRun(s, b + k, End))

clauseFrom(s, b, End(_, _)) ==
  clauseAfter(s, b,
              MaxOrZero({k \in 1..runFrom(s, b, IsSpace) :
                           lazyRun(s, b + k, End) # 0}),
              End)

\* /SELECT\s+(.+?)\s+FROM/i: the captured group, or Null
fromAt(s, e) == spacedKeywordAt(s, e, kwFrom)

selectAt(s, i) ==
  IF keywordAt(s, i, kwSelect)
  THEN clauseFrom(s, i + Len(kwSelect), fromAt) ELSE Null

selectMatch(s) == FirstMatch(s, selectAt)

\* /WHERE\s+(.+?)(?:\s+GROUP|\s+ORDER|\s+LIMIT|$)/i: the captured group
whereEndAt(s, e) ==
  \/ spacedKeywordAt(s, e, kwGroup)
  \/ spacedKeywordAt(s, e, kwOrder)
  \/ spacedKeywordAt(s, e, kwLimit)
  \/ e = Len(s) + 1

whereAt(s, i) ==
  IF keywordAt(s, i, kwWhere)
  THEN clauseFrom(s, i + Len(kwWhere), whereEndAt) ELSE Null

whereMatch(s) == FirstMatch(s, whereAt)

\* String.prototype.split(/\s+AND\s+/i): andAt is the position after the
\* separator that starts at position i, 0 if none starts there
andAfter(s, a) ==
  IF keywordAt(s, a, kwAnd) /\ runFrom(s, a + Len(kwAnd), IsSpace) >= 1
  THEN skipSpaces(s, a + Len(kwAnd)) ELSE 0

andAt(s, i) == IF IsSpace(s[i]) THEN andAfter(s, skipSpaces(s, i)) ELSE 0

RECURSIVE splitAnd(_), splitAndAt(_, _)
splitAnd(s) == splitAndAt(s, MinOrZero({i \in DOMAIN s : andAt(s, i) # 0}))

splitAndAt(s, i) ==
  IF i = 0 THEN <<s>>
  ELSE <<SubSeq(s, 1, i - 1)>> \o splitAnd(SubSeq(s, andAt(s, i), Len(s)))

\* The value a condition ends with, from position v on:
\* \s*['"]?P?([^'"]+) with P the optional "%" of LIKE (pct) or nothing.
\* The spaces are given back one by one until the rest matches; the quote and
\* the percent sign are taken when that lets the group match.
quoteAt(s, a) == IF a <= Len(s) /\ ~NotQuoteChar(s[a]) THEN 1 ELSE 0
percentAt(s, a, pct) == IF pct /\ a <= Len(s) /\ s[a] = "%" THEN 1 ELSE 0

\* The places where the group may start after the optional quote (q is
\* quoteAt) and percent sign, in the order in which the search tries them
groupStarts(s, a, q, pct) ==
  <<a + q + percentAt(s, a + q, pct), a + q, a + percentAt(s, a, pct), a>>

\* The first of the places from which [^'"]+ matches, 0 if it matches from none
pickOf(starts, n) == IF n = 0 THEN 0 ELSE starts[n]

firstGroup(s, starts) ==
  pickOf(starts,
         MinOrZero({n \in DOMAIN starts :
                      runFrom(s, starts[n], NotQuoteChar) >= 1}))

groupStart(s, a, pct) == firstGroup(s, groupStarts(s, a, quoteAt(s, a), pct))

valueAt(s, a) == captureAt(s, a, IF a = 0 THEN 0 ELSE runFrom(s, a, NotQuoteChar))

groupAfter(s, v, pct, fits) ==
  IF fits = {} THEN 0 ELSE groupStart(s, v + MaxOf(fits), pct)

valueFrom(s, v, pct) ==
  valueAt(s, groupAfter(s, v, pct,
                        {k \in 0..runFrom(s, v, IsSpace) :
                           groupStart(s, v + k, pct) # 0}))

\* <<field, value>> for the word from i to w - 1 and a value that matched
pairOf(s, i, w, value) ==
  IF IsNull(value) THEN Null ELSE Some(<<SubSeq(s, i, w - 1), Val(value)>>)

\* /(\w+)\s*=\s*['"]?([^'"]+)['"]?/i: <<field, value>>, or Null
eqValue(s, e) ==
  IF e <= Len(s) /\ s[e] = "=" THEN valueFrom(s, e + 1, FALSE) ELSE Null

eqFrom(s, i, w) ==
  IF IsWordChar(s[i]) THEN pairOf(s, i, w, eqValue(s, skipSpaces(s, w)))
  ELSE Null

eqAt(s, i) == eqFrom(s, i, wordEnd(s, i))

eqMatch(s) == FirstMatch(s, eqAt)

\* /(\w+)\s+LIKE\s+['"]?%?([^'"]+)%?['"]?/i: <<field, value>>, or Null
likeValue(s, l) ==
  IF keywordAt(s, l, kwLike) /\ runFrom(s, l + Len(kwLike), IsSpace) >= 1
  THEN valueFrom(s, l + Len(kwLike) + 1, TRUE) ELSE Null

likeFrom(s, i, w) ==
  IF IsWordChar(s[i]) /\ runFrom(s, w, IsSpace) >= 1
  THEN pairOf(s, i, w, likeValue(s, skipSpaces(s, w)))
  ELSE Null

likeAt(s, i) == likeFrom(s, i, wordEnd(s, i))

likeMatch(s) == FirstMatch(s, likeAt)

\* /GROUP\s+BY\s+(\w+)/i: the captured group, or Null
wordAt(s, w) == captureAt(s, w, runFrom(s, w, IsWordChar))

byAt(s, b) ==
  IF keywordAt(s, b, kwBy) /\ runFrom(s, b + Len(kwBy), IsSpace) >= 1
  THEN wordAt(s, skipSpaces(s, b + Len(kwBy))) ELSE Null

groupAt(s, i) ==
  IF keywordAt(s, i, kwGroup) /\ runFrom(s, i + Len(kwGroup), IsSpace) >= 1
  THEN byAt(s, skipSpaces(s, i + Len(kwGroup))) ELSE Null

groupMatch(s) == FirstMatch(s, groupAt)

\* /LIMIT\s+(\d+)/i: the captured group, or Null
digitsAt(s, d) == captureAt(s, d, runFrom(s, d, IsDigit))

limitAt(s, i) ==
  IF keywordAt(s, i, kwLimit) /\ runFrom(s, i + Len(kwLimit), IsSpace) >= 1
  THEN digitsAt(s, skipSpaces(s, i + Len(kwLimit))) ELSE Null

limitMatch(s) == FirstMatch(s, limitAt)

\* The assignments result.where[field.toLowerCase()] = value that the loop
\* over the conditions makes, in order: that of the "=" pattern, then that of
\* the LIKE pattern
assignment(m) ==
  IF IsNull(m) THEN <<>> ELSE << <<toLowerCase(Val(m)[1]), Val(m)[2]>> >>

whereAssignments(conditions) ==
  Flatten([c \in DOMAIN conditions |->
             assignment(eqMatch(conditions[c]))
               \o assignment(likeMatch(conditions[c]))])

\* The object the assignments leave: each key with the last value given to it
objectOf(assignments) ==
  [key \in {assignments[i][1] : i \in DOMAIN assignments} |->
     assignments[MaxOf({i \in DOMAIN assignments :
                          assignments[i][1] = key})][2]]

trimAll(parts) == [i \in DOMAIN parts |-> trim(parts[i])]

\* A plan that selects nothing when the query has no SELECT clause
selectOfNoDefault(sel) ==
  IF IsNull(sel) THEN <<>> ELSE trimAll(split(Val(sel), ","))

selectOf(sel) ==
  IF IsNull(sel) THEN << <<"*">> >> ELSE trimAll(split(Val(sel), ","))

whereOf(whr) ==
  objectOf(IF IsNull(whr) THEN <<>> ELSE whereAssignments(splitAnd(Val(whr))))

groupByOf(grp) == IF IsNull(grp) THEN Null ELSE Some(toLowerCase(Val(grp)))

limitOf(lim) == IF IsNull(lim) THEN Null ELSE parseInt(Val(lim))

planOf(normalizedQuery) ==
  [select |-> selectOf(selectMatch(normalizedQuery)),
   where |-> whereOf(whereMatch(normalizedQuery)),
   groupBy |-> groupByOf(groupMatch(normalizedQuery)),
   limit |-> limitOf(limitMatch(normalizedQuery))]

parseSimpleSQL(query) == planOf(trim(query))

(***************************************************************************)
(* executeSQLQuery (lines 344-447)                                         *)
(***************************************************************************)
kAge == <<"a","g","e">>
kAgeGroup == <<"a","g","e","_","g","r","o","u","p">>
kAgegroup == <<"a","g","e","g","r","o","u","p">>
kGender == <<"g","e","n","d","e","r">>
kRegion == <<"r","e","g","i","o","n">>
kCondition == <<"c","o","n","d","i","t","i","o","n">>
kSymptom == <<"s","y","m","p","t","o","m">>
kMedication == <<"m","e","d","i","c","a","t","i","o","n">>

\* parsed.where.key
whereGet(where, key) == IF key \in DOMAIN where THEN Some(where[key]) ELSE Null

\* a || b
orElse(a, b) == IF IsSet(a) THEN a ELSE b

\* r.age === Number.parseInt(parsed.where.age, 10)
byAge(option, records) ==
  IF IsSet(option)
  THEN Filter(records, LAMBDA r : Some(r.age) = parseInt(Val(option)))
  ELSE records

\* getAgeGroup(r.age) === ageGroup
byAgeGroup(option, records) ==
  IF IsSet(option)
  THEN Filter(records, LAMBDA r : routeAgeGroup(r.age) = Val(option))
  ELSE records

sqlWhere(where, allRecords) ==
  byMedication(whereGet(where, kMedication),
    byCondition(orElse(whereGet(where, kCondition), whereGet(where, kSymptom)),
      byRegion(whereGet(where, kRegion),
        byGender(whereGet(where, kGender),
          byAgeGroup(orElse(whereGet(where, kAgeGroup),
                            whereGet(where, kAgegroup)),
            byAge(whereGet(where, kAge), allRecords))))))

sqlFiltered(parsed, allRecords) == sqlWhere(parsed.where, allRecords)

\* The keys the GROUP BY loop counts, in the order it counts them
\* A GROUP BY without the default case: no key for any other field
sqlKeysOfKnownFields(groupBy, records) ==
  IF groupBy \in {kAgeGroup, kAgegroup, kAge}
  THEN [i \in DOMAIN records |-> routeAgeGroup(records[i].age)]
  ELSE IF groupBy = kGender
  THEN [i \in DOMAIN records |-> records[i].gender]
  ELSE IF groupBy = kRegion
  THEN [i \in DOMAIN records |-> records[i].region]
  ELSE <<>>

sqlKeys(groupBy, records) ==
  IF groupBy \in {kAgeGroup, kAgegroup, kAge}
  THEN [i \in DOMAIN records |-> routeAgeGroup(records[i].age)]
  ELSE IF groupBy = kGender
  THEN [i \in DOMAIN records |-> records[i].gender]
  ELSE IF groupBy = kRegion
  THEN [i \in DOMAIN records |-> records[i].region]
  ELSE [i \in DOMAIN records |-> sUnknown]

\* parsed.limit || 100
sqlLimit(parsed) ==
  IF IsNull(parsed.limit) \/ Val(parsed.limit) = 0
  THEN DEFAULT_LIMIT ELSE Val(parsed.limit)

\* A response that groups what is left after LIMIT
sqlResultGroupsAfterLimit(parsed, filteredRecords) ==
  IF IsSet(parsed.groupBy)
  THEN [success |-> TRUE,
        data |-> [aggregations |->
                    tally(sqlKeys(Val(parsed.groupBy),
                                  slice0(filteredRecords, sqlLimit(parsed)))),
                  stats |-> [totalMatched |-> Len(filteredRecords)]]]
  ELSE [success |-> TRUE,
        data |-> [records |-> slice0(filteredRecords, sqlLimit(parsed)),
                  stats |-> [totalMatched |-> Len(filteredRecords)]]]

\* The response of executeSQLQuery for the plan parsed and the records that
\* passed its WHERE conditions
sqlResult(parsed, filteredRecords) ==
  IF IsSet(parsed.groupBy)
  THEN [success |-> TRUE,
        data |-> [aggregations |->
                    tally(sqlKeys(Val(parsed.groupBy), filteredRecords)),
                  stats |-> [totalMatched |-> Len(filteredRecords)]]]
  ELSE [success |-> TRUE,
        data |-> [records |-> slice0(filteredRecords, sqlLimit(parsed)),
                  stats |-> [totalMatched |-> Len(filteredRecords)]]]

sqlResponse(parsed, allRecords) ==
  sqlResult(parsed, sqlFiltered(parsed, allRecords))

(***************************************************************************)
(* The requests the model sends                                            *)
(***************************************************************************)
QueryAll == <<"S","E","L","E","C","T"," ","*"," ","F","R","O","M"," ","e","h","r">>
QueryMaleLimit1 ==
  <<"S","E","L","E","C","T"," ","*"," ","F","R","O","M"," ","e","h","r"," ","W","H","E","R","E"," ","g","e","n","d","e","r"," ","="," ","'","M","a","l","e","'"," ","L","I","M","I","T"," ","1">>
QueryLimit0 ==
  <<"S","E","L","E","C","T"," ","*"," ","F","R","O","M"," ","e","h","r"," ","L","I","M","I","T"," ","0">>
QueryByGender ==
  <<"S","E","L","E","C","T"," ","*"," ","F","R","O","M"," ","e","h","r"," ","G","R","O","U","P"," ","B","Y"," ","g","e","n","d","e","r">>
QueryDiabetesByAge ==
  <<"s","e","l","e","c","t"," ","r","e","g","i","o","n"," ","f","r","o","m"," ","e","h","r"," ","w","h","e","r","e"," ","c","o","n","d","i","t","i","o","n"," ","="," ","'","D","i","a","b","e","t","e","s","'"," ","g","r","o","u","p"," ","b","y"," ","a","g","e","_","g","r","o","u","p"," ","l","i","m","i","t"," ","1">>
QueryEmpty == <<>>
QueryBlank == <<" ", "\t", "\n", " ">>
\* clauses without their operands
QueryMalformed ==
  <<"w","h","e","r","e"," ","="," ","l","i","m","i","t"," ","x"," ","g","r","o","u","p"," ","b","y">>
QueryLikeAbet ==
  <<"S","E","L","E","C","T"," ","*"," ","F","R","O","M"," ","e","h","r"," ","W","H","E","R","E"," ","c","o","n","d","i","t","i","o","n"," ","L","I","K","E"," ","'","%","a","b","e","t","%","'">>
QueryEqDiabetes ==
  <<"S","E","L","E","C","T"," ","*"," ","F","R","O","M"," ","e","h","r"," ","W","H","E","R","E"," ","c","o","n","d","i","t","i","o","n"," ","="," ","'","D","i","a","b","e","t","e","s","'">>
\* the example "Female Patients with Diabetes" of the query panel, on one
\* line and as the panel has it
QueryFemaleDiabetes ==
  <<"S","E","L","E","C","T"," ","*"," ","F","R","O","M"," ","e","h","r"," ","W","H","E","R","E"," ","g","e","n","d","e","r"," ","="," ","'","F","e","m","a","l","e","'"," ","A","N","D"," ","c","o","n","d","i","t","i","o","n"," ","="," ","'","D","i","a","b","e","t","e","s","'"," ","L","I","M","I","T"," ","5","0">>
QueryFemaleDiabetesLines ==
  <<"S","E","L","E","C","T"," ","*","\n","F","R","O","M"," ","e","h","r","_","r","e","c","o","r","d","s","\n","W","H","E","R","E"," ","g","e","n","d","e","r"," ","="," ","'","F","e","m","a","l","e","'","\n","A","N","D"," ","c","o","n","d","i","t","i","o","n"," ","="," ","'","D","i","a","b","e","t","e","s","'","\n","L","I","M","I","T"," ","5","0">>
QueryDroppedCondition ==
  <<"s","e","l","e","c","t"," ","*"," ","f","r","o","m"," ","e","h","r"," ","w","h","e","r","e"," ","g","e","n","d","e","r"," ","="," ","'","M","a","l","e","'"," "," ","a","n","d"," ","n","o","n","s","e","n","s","e","\t","A","n","D"," ","r","e","g","i","o","n"," ","="," ","'","K","a","n","t","o","'">>
QueryByAge ==
  <<"S","E","L","E","C","T"," ","*"," ","F","R","O","M"," ","e","h","r"," ","G","R","O","U","P"," ","B","Y"," ","a","g","e">>
QueryByGenderLimit1 ==
  <<"S","E","L","E","C","T"," ","*"," ","F","R","O","M"," ","e","h","r"," ","G","R","O","U","P"," ","B","Y"," ","g","e","n","d","e","r"," ","L","I","M","I","T"," ","1">>
QueryDiagnosisFever ==
  <<"S","E","L","E","C","T"," ","*"," ","F","R","O","M"," ","e","h","r"," ","W","H","E","R","E"," ","d","i","a","g","n","o","s","i","s"," ","="," ","'","F","e","v","e","r","'">>
kDiagnosis == <<"d","i","a","g","n","o","s","i","s">>
\* GROUP BY a field the executor has no case for
QueryByCondition == <<"S","E","L","E","C","T"," ","*"," ","F","R","O","M"," ","e","h","r"," ","G","R","O","U","P"," ","B","Y"," ","c","o","n","d","i","t","i","o","n">>
QueryFemaleByMedication ==
  <<"S","E","L","E","C","T"," ","*"," ","F","R","O","M"," ","e","h","r"," ","W","H","E","R","E"," ","g","e","n","d","e","r"," ","="," ","'","F","e","m","a","l","e","'"," ","G","R","O","U","P"," ","B","Y"," ","M","e","d","i","c","a","t","i","o","n">>
QueryFemale ==
  <<"S","E","L","E","C","T"," ","*"," ","F","R","O","M"," ","e","h","r"," ","W","H","E","R","E"," ","g","e","n","d","e","r"," ","="," ","'","F","e","m","a","l","e","'">>
QueryFemaleAndMale ==
  <<"S","E","L","E","C","T"," ","*"," ","F","R","O","M"," ","e","h","r"," ","W","H","E","R","E"," ","g","e","n","d","e","r"," ","="," ","'","F","e","m","a","l","e","'"," ","A","N","D"," ","g","e","n","d","e","r"," ","="," ","'","M","a","l","e","'">>

SqlQueries ==
  <<QueryAll, QueryMaleLimit1, QueryLimit0, QueryByGender, QueryDiabetesByAge,
    QueryEmpty, QueryBlank, QueryMalformed, QueryLikeAbet, QueryEqDiabetes,
    QueryFemaleDiabetes, QueryFemaleDiabetesLines, QueryDroppedCondition,
    QueryByAge, QueryByGenderLimit1, QueryDiagnosisFever, QueryFemale,
    QueryFemaleAndMale, QueryByCondition, QueryFemaleByMedication>>

\* parseSimpleSQL of every query text the model sends, evaluated once
SqlPlans == [i \in DOMAIN SqlQueries |-> parseSimpleSQL(SqlQueries[i])]

planFor(query) == SqlPlans[IndexIn(query, SqlQueries)]

executeSQLQuery(request, allRecords) ==
  sqlResponse(planFor(request.query), allRecords)

sMaleLower == <<"m","a","l","e">>
sFemaleUpper == <<"F","E","M","A","L","E">>
sAsthUpper == <<"A","S","T","H">>
sAbet == <<"a","b","e","t">>
sKan == <<"k","a","n">>
sFluLower == <<"f","l","u">>
sInsulinLower == <<"i","n","s","u","l","i","n">>

\* A function with the given properties: f :> v is one property
NoFilters == <<>>

FilterSets ==
  { NoFilters,
    "gender" :> sMaleLower,
    "gender" :> sAll,
    "condition" :> sAbet,
    "ageMin" :> 40 @@ "ageMax" :> 80,
    "gender" :> sMaleLower @@ "condition" :> sAbet,
    "region" :> sKan @@ "medication" :> sInsulinLower,
    "diagnosis" :> sFluLower,
    "condition" :> sAll,
    "medication" :> sAll,
    "region" :> sAll,
    "diagnosis" :> sAll,
    "gender" :> sAll @@ "condition" :> sAbet,
    "region" :> sAll @@ "ageMin" :> 40 @@ "diagnosis" :> sFluLower,
    "ageMin" :> 45 @@ "ageMax" :> 70,
    "gender" :> sFemaleUpper @@ "condition" :> sAsthUpper }

MaxLimit == 2
Limits == 0..MaxLimit

FilterBodies ==
  {[type |-> "filter", filters |-> f] : f \in FilterSets}
    \cup {[type |-> "filter", filters |-> f, limit |-> n] :
            f \in FilterSets, n \in Limits}

SqlBodies == {[type |-> "sql", query |-> SqlQueries[i]] : i \in DOMAIN SqlQueries}

GroupBys == {"age", "gender", "region", "condition", "medication"}

AggregateFilters == {"gender" :> sMaleLower, "condition" :> sAbet}

AggregateBodies ==
  {[type |-> "aggregate", groupBy |-> g] : g \in GroupBys}
    \cup {[type |-> "aggregate", groupBy |-> g, filter |-> f] :
            g \in GroupBys, f \in AggregateFilters}

\* Bodies that lack the type, name no known type, or lack a required field
MalformedBodies ==
  { [limit |-> 1],
    [type |-> "", filters |-> NoFilters],
    [type |-> "count"],
    [type |-> "filter"],
    [type |-> "sql"],
    [type |-> "aggregate"] }

Bodies == FilterBodies \cup SqlBodies \cup AggregateBodies \cup MalformedBodies

\* The bodies of the requests that run concurrently
\* The file of the concurrent handlers is unreadable or one of three texts
SharedSources == {Unreadable} \cup {i \in DOMAIN Contents : i <= 3}

SharedBodies == { [type |-> "filter", filters |-> NoFilters] }

(***************************************************************************)
(* State                                                                   *)
(***************************************************************************)
NumProcs == 2
Procs == 1..NumProcs

CACHE_TTL_MS == 5 * 60 * 1000

\* Date.now() advances by TickMs at a time, MaxTicks times at most
TicksPerTTL == 2
TickMs == CACHE_TTL_MS \div TicksPerTTL
MaxTicks == 3
StartMs == TickMs

VARIABLES
  cachedRecords,   \* EHRRecord[] | null
  cachedStats,     \* EHRStatistics | null
  cacheTimestamp,  \* number | null
  now,             \* Date.now()
  source,          \* what readFile finds: Unreadable, or the text's number
  pc,              \* per request handler: "idle", "readFile", "resume"
  call,            \* the request a handler is serving
  loaded,          \* what its await loadEHRData() resolved to
  outcome,         \* how its readFile ended: "none", "resolved", "rejected"
  sent             \* the response sent last, with its request

vars == <<cachedRecords, cachedStats, cacheTimestamp, now, source,
          pc, call, loaded, outcome, sent>>

cache == <<cachedRecords, cachedStats, cacheTimestamp>>

NoCall == [method |-> "none"]
Nothing == [call |-> NoCall]

Init ==
  /\ cachedRecords = Null
  /\ cachedStats = Null
  /\ cacheTimestamp = Null
  /\ now = StartMs
  /\ source \in Sources
  /\ pc = [p \in Procs |-> "idle"]
  /\ call = [p \in Procs |-> NoCall]
  /\ loaded = [p \in Procs |-> <<>>]
  /\ outcome = [p \in Procs |-> "none"]
  /\ sent = Nothing

(***************************************************************************)
(* The dataset cache: loadEHRData (lines 243-297), getEHRStatistics        *)
(* (lines 302-312, 414-415)                                                *)
(***************************************************************************)
\* A cache check that takes half the time to live
\* The cache check without the age of the snapshot
LoadHitAnyAge == ~IsNull(cachedRecords)

LoadHitHalfTTL ==
  /\ ~IsNull(cachedRecords)
  /\ ~IsNull(cacheTimestamp) /\ Val(cacheTimestamp) # 0
  /\ now - Val(cacheTimestamp) < CACHE_TTL_MS \div 2

\* cachedRecords && cacheTimestamp && Date.now() - cacheTimestamp < CACHE_TTL_MS
LoadHit ==
  /\ ~IsNull(cachedRecords)
  /\ ~IsNull(cacheTimestamp) /\ Val(cacheTimestamp) # 0
  /\ now - Val(cacheTimestamp) < CACHE_TTL_MS

\* cachedStats && cacheTimestamp && Date.now() - cacheTimestamp < CACHE_TTL_MS
StatsHit ==
  /\ ~IsNull(cachedStats)
  /\ ~IsNull(cacheTimestamp) /\ Val(cacheTimestamp) # 0
  /\ now - Val(cacheTimestamp) < CACHE_TTL_MS

\* A publication that leaves the statistics in place
PublishKeepsStats(records) ==
  /\ cachedRecords' = Some(records)
  /\ cacheTimestamp' = Some(now)
  /\ UNCHANGED cachedStats

\* lines 288-290, which no await separates
\* A publication stamped with the time the service started
PublishStartTime(records) ==
  /\ cachedRecords' = Some(records)
  /\ cacheTimestamp' = Some(StartMs)
  /\ cachedStats' = Null

Publish(records) ==
  /\ cachedRecords' = Some(records)
  /\ cacheTimestamp' = Some(now)
  /\ cachedStats' = Null

\* A catch that drops the cache
ClearOnFailure ==
  /\ cachedRecords' = Null
  /\ cacheTimestamp' = Null
  /\ cachedStats' = Null

\* The catch of lines 293-296 touches no cache variable
KeepOnFailure == UNCHANGED cache

\* The continuation of an await runs before the event loop takes up the
\* next request, timer or completed read
InTurn == \A q \in Procs : pc[q] # "resume"

(***************************************************************************)
(* The route: POST (lines 449-490) and GET (lines 493-515)                 *)
(***************************************************************************)
QueryTypes == {"filter", "sql", "aggregate"}

\* !body.type
LacksType(body) == IF Has(body, "type") THEN body.type = "" ELSE TRUE

\* lines 453 and 472: no type, or the default of the switch
Invalid(body) == IF LacksType(body) THEN TRUE ELSE body.type \notin QueryTypes

\* The handler throws a TypeError inside its try block before it loads:
\* filters.ageMin of undefined (line 208), query.trim of undefined (line 140)
Throws(body) ==
  IF body.type = "filter" THEN ~Has(body, "filters")
  ELSE IF body.type = "sql" THEN ~Has(body, "query")
  ELSE FALSE

thrownMessage(body) ==
  IF body.type = "filter"
  THEN "Cannot read properties of undefined (reading 'ageMin')"
  ELSE "Cannot read properties of undefined (reading 'trim')"

\* The QueryResponse of the handler of body.type, given what loadEHRData
\* returned
execute(body, records) ==
  IF body.type = "filter" THEN executeFilterQuery(body, records)
  ELSE IF body.type = "sql" THEN executeSQLQuery(body, records)
  ELSE executeAggregateQuery(body, records)

CAPABILITIES ==
  <<"Filter by age, gender, region, condition, medication",
    "SQL-like queries with SELECT, WHERE, GROUP BY, LIMIT",
    "Aggregation by age group, gender, region, condition">>

statsResponse(stats) ==
  [status |-> 200,
   body |-> [success |-> TRUE, statistics |-> stats,
             capabilities |-> CAPABILITIES]]

PostCall(body) == [method |-> "POST", body |-> body]
GetCall == [method |-> "GET"]

Idle(p) == pc[p] = "idle" /\ InTurn

\* NextResponse.json: the response r to the request c.  With it go how the
\* handler's read of the source ended, whether it found its cache entry
\* valid, and the records it worked on, if it got any.
Send(c, r, read, hit, records) ==
  sent' = [call |-> c, response |-> r, read |-> read, hit |-> hit,
           from |-> records]

\* lines 453-458 and 472-476
PostRejected(p, body) ==
  /\ Idle(p)
  /\ Invalid(body)
  /\ Send(PostCall(body),
          [status |-> 400,
           body |-> [success |-> FALSE,
                     error |-> IF LacksType(body)
                               THEN "Query type is required"
                               ELSE "Invalid query type"]],
          "none", FALSE, Null)
  /\ UNCHANGED <<cache, now, source, pc, call, loaded, outcome>>

\* the catch of executeFilterQuery or executeSQLQuery, then line 479
PostThrows(p, body) ==
  /\ Idle(p)
  /\ ~Invalid(body)
  /\ Throws(body)
  /\ Send(PostCall(body),
          [status |-> 200,
           body |-> [success |-> FALSE, error |-> thrownMessage(body)]],
          "none", FALSE, Null)
  /\ UNCHANGED <<cache, now, source, pc, call, loaded, outcome>>

\* request.json() rejects, the text of the request being no JSON: the catch
\* of lines 480-488
PostJsonRejects(p) ==
  /\ Idle(p)
  /\ Send([method |-> "POST"],
          [status |-> 500,
           body |-> [success |-> FALSE,
                     error |-> "Unexpected end of JSON input"]],
          "none", FALSE, Null)
  /\ UNCHANGED <<cache, now, source, pc, call, loaded, outcome>>

\* loadEHRData returns cachedRecords (line 250)
PostFromCache(p, body) ==
  /\ Idle(p)
  /\ ~Invalid(body)
  /\ ~Throws(body)
  /\ LoadHit
  /\ Send(PostCall(body),
          [status |-> 200, body |-> execute(body, Val(cachedRecords))],
          "none", TRUE, cachedRecords)
  /\ UNCHANGED <<cache, now, source, pc, call, loaded, outcome>>

\* loadEHRData awaits readFile (line 261)
PostReads(p, body) ==
  /\ Idle(p)
  /\ ~Invalid(body)
  /\ ~Throws(body)
  /\ ~LoadHit
  /\ pc' = [pc EXCEPT ![p] = "readFile"]
  /\ call' = [call EXCEPT ![p] = PostCall(body)]
  /\ UNCHANGED <<cache, now, source, loaded, outcome, sent>>

\* getEHRStatistics returns cachedStats (line 309)
GetFromCache(p) ==
  /\ Idle(p)
  /\ StatsHit
  /\ Send(GetCall, statsResponse(Val(cachedStats)), "none", TRUE, Null)
  /\ UNCHANGED <<cache, now, source, pc, call, loaded, outcome>>

\* getEHRStatistics computes from the records loadEHRData had cached
GetComputes(p) ==
  /\ Idle(p)
  /\ ~StatsHit
  /\ LoadHit
  /\ cachedStats' = Some(computeStatistics(Val(cachedRecords), now))
  /\ Send(GetCall, statsResponse(computeStatistics(Val(cachedRecords), now)),
          "none", FALSE, cachedRecords)
  /\ UNCHANGED <<cachedRecords, cacheTimestamp, now, source, pc, call, loaded,
                 outcome>>

\* getEHRStatistics awaits loadEHRData, which awaits readFile
GetReads(p) ==
  /\ Idle(p)
  /\ ~StatsHit
  /\ ~LoadHit
  /\ pc' = [pc EXCEPT ![p] = "readFile"]
  /\ call' = [call EXCEPT ![p] = GetCall]
  /\ UNCHANGED <<cache, now, source, loaded, outcome, sent>>

\* readFile resolves: lines 262-292
ReadFileResolves(p) ==
  /\ pc[p] = "readFile"
  /\ InTurn
  /\ source # Unreadable
  /\ Publish(Parsed[source])
  /\ loaded' = [loaded EXCEPT ![p] = Parsed[source]]
  /\ outcome' = [outcome EXCEPT ![p] = "resolved"]
  /\ pc' = [pc EXCEPT ![p] = "resume"]
  /\ UNCHANGED <<now, source, call, sent>>

\* readFile rejects: the catch of lines 293-296
ReadFileRejects(p) ==
  /\ pc[p] = "readFile"
  /\ InTurn
  /\ source = Unreadable
  /\ KeepOnFailure
  /\ loaded' = [loaded EXCEPT ![p] = <<>>]
  /\ outcome' = [outcome EXCEPT ![p] = "rejected"]
  /\ pc' = [pc EXCEPT ![p] = "resume"]
  /\ UNCHANGED <<now, source, call, sent>>

Finish(p) ==
  /\ pc' = [pc EXCEPT ![p] = "idle"]
  /\ call' = [call EXCEPT ![p] = NoCall]
  /\ loaded' = [loaded EXCEPT ![p] = <<>>]
  /\ outcome' = [outcome EXCEPT ![p] = "none"]

\* the handler goes on after await loadEHRData(), then line 479
ResumePost(p) ==
  /\ pc[p] = "resume"
  /\ call[p].method = "POST"
  /\ Send(call[p],
          [status |-> 200, body |-> execute(call[p].body, loaded[p])],
          outcome[p], FALSE, Some(loaded[p]))
  /\ Finish(p)
  /\ UNCHANGED <<cache, now, source>>

\* getEHRStatistics goes on after await loadEHRData(): lines 314-415
ResumeGet(p) ==
  /\ pc[p] = "resume"
  /\ call[p].method = "GET"
  /\ cachedStats' = Some(computeStatistics(loaded[p], now))
  /\ Send(call[p], statsResponse(computeStatistics(loaded[p], now)),
          outcome[p], FALSE, Some(loaded[p]))
  /\ Finish(p)
  /\ UNCHANGED <<cachedRecords, cacheTimestamp, now, source>>

\* time passes
Tick ==
  /\ InTurn
  /\ now < StartMs + MaxTicks * TickMs
  /\ now' = now + TickMs
  /\ UNCHANGED <<cache, source, pc, call, loaded, outcome, sent>>

\* the file is replaced, removed or restored
SourceChanges(c) ==
  /\ InTurn
  /\ c # source
  /\ source' = c
  /\ UNCHANGED <<cache, now, pc, call, loaded, outcome, sent>>

Next ==
  \/ \E p \in Procs, body \in SharedBodies :
       PostFromCache(p, body) \/ PostReads(p, body)
  \/ \E p \in Procs :
       \/ GetFromCache(p) \/ GetComputes(p) \/ GetReads(p)
       \/ ReadFileResolves(p) \/ ReadFileRejects(p)
       \/ ResumePost(p) \/ ResumeGet(p)
  \/ Tick
  \/ \E c \in SharedSources : SourceChanges(c)

\* The concurrent handlers start with one of the shared files
InitShared == Init /\ source \in SharedSources

Spec == InitShared /\ [][Next]_vars

\* One client sends any request, one at a time, to a server whose file is
\* as Init finds it
NextQuery ==
  \/ \E body \in Bodies :
       \/ PostRejected(1, body) \/ PostThrows(1, body)
       \/ PostFromCache(1, body) \/ PostReads(1, body)
  \/ PostJsonRejects(1)
  \/ GetFromCache(1) \/ GetComputes(1) \/ GetReads(1)
  \/ ReadFileResolves(1) \/ ReadFileRejects(1)
  \/ ResumePost(1) \/ ResumeGet(1)

SpecQuery == Init /\ [][NextQuery]_vars

(***************************************************************************)
(* The responses to filter, sql and aggregate requests                     *)
(***************************************************************************)
\* The last response is the answer of the handler of the given type
Answers(type) ==
  /\ sent.call.method = "POST"
  /\ Has(sent.call, "body")
  /\ ~Invalid(sent.call.body)
  /\ ~Throws(sent.call.body)
  /\ sent.call.body.type = type

Grouped(body) == IsSet(planFor(body.query).groupBy)

\* ... of a request that lists records: filter, or sql without GROUP BY
Listing ==
  IF Answers("filter") THEN TRUE
  ELSE IF Answers("sql") THEN ~Grouped(sent.call.body) ELSE FALSE

\* ... of a request that counts groups: sql with GROUP BY, or aggregate
\* with one of the five groupBy values
Grouping ==
  IF Answers("sql") THEN Grouped(sent.call.body)
  ELSE IF Answers("aggregate")
  THEN IF Has(sent.call.body, "groupBy")
       THEN sent.call.body.groupBy \in GroupBys ELSE FALSE
  ELSE FALSE

\* The records of the snapshot that satisfy all predicates of the request
Satisfying(body, records) ==
  IF body.type = "filter" THEN searchFiltered(filterOptions(body), records)
  ELSE IF body.type = "sql" THEN sqlFiltered(planFor(body.query), records)
  ELSE aggregateFiltered(body, records)

\* The limit of the request or of its plan, DEFAULT_LIMIT when none is given
EffectiveLimit(body) ==
  IF body.type = "filter"
  THEN IF Has(body, "limit") THEN body.limit ELSE DEFAULT_LIMIT
  ELSE IF IsNull(planFor(body.query).limit) THEN DEFAULT_LIMIT
  ELSE Val(planFor(body.query).limit)

Data == sent.response.body.data

Matching == Satisfying(sent.call.body, Val(sent.from))

\* C1: for a filter request and a sql request without GROUP BY,
\* stats.totalMatched is the number of records of the snapshot that satisfy
\* all predicates, counted before the limit is applied
C1_TotalMatchedCountsBeforeLimit ==
  Listing => Data.stats.totalMatched = Len(Matching)

\* C2: for a filter request and a sql request without GROUP BY, the records
\* returned are min(F, L) many, F the number of records that satisfy all
\* predicates and L the effective limit, 0 included
C2_ReturnsMinOfMatchedAndLimit ==
  Listing =>
    Len(Data.records) = Min(Len(Matching), EffectiveLimit(sent.call.body))

\* C3: in every aggregation response, of sql with GROUP BY or of aggregate
\* by age, gender, region, condition or medication, the group counts sum to
\* stats.totalMatched
C3_GroupCountsSumToTotalMatched ==
  Grouping => SumCounts(Data.aggregations) = Data.stats.totalMatched

MultiValued ==
  /\ Answers("aggregate")
  /\ sent.call.body.groupBy \in {"condition", "medication"}

\* The symptoms, or the medications, that the records list, all together
Entries(groupBy, records) ==
  Flatten([i \in DOMAIN records |->
             IF groupBy = "condition" THEN records[i].symptoms
             ELSE records[i].medicationHistory])

\* C3 as amended: stats.totalMatched is the number of records that pass the
\* filter of the request; the group counts sum to it for sql with GROUP BY
\* and for aggregate by age, gender or region, and sum to the number of
\* symptoms, or of medications, those records list for aggregate by
\* condition, or by medication
C3_GroupCountsSumToWhatIsGrouped ==
  Grouping =>
    /\ Data.stats.totalMatched = Len(Matching)
    /\ SumCounts(Data.aggregations) =
         IF MultiValued
         THEN Len(Entries(sent.call.body.groupBy, Matching))
         ELSE Len(Matching)

\* An aggregate by condition is answered whose records list more symptoms
\* than there are records: one of them counts in two groups
C3_MultiValuedGroupsAnswered ==
  /\ Grouping
  /\ MultiValued
  /\ sent.call.body.groupBy = "condition"
  /\ SumCounts(Data.aggregations) > Data.stats.totalMatched
  /\ \E i \in DOMAIN Matching : Len(Matching[i].symptoms) = 2

(***************************************************************************)
(* The dataset cache                                                       *)
(***************************************************************************)
\* A record snapshot is cached that is less than the time to live old
RecordsValid ==
  IF IsNull(cachedRecords) \/ IsNull(cacheTimestamp) THEN FALSE
  ELSE now - Val(cacheTimestamp) < CACHE_TTL_MS

\* Statistics are cached and the cache entry is less than the time to live
\* old: the cache keeps one timestamp, that of the records
StatsValid ==
  IF IsNull(cachedStats) \/ IsNull(cacheTimestamp) THEN FALSE
  ELSE now - Val(cacheTimestamp) < CACHE_TTL_MS

\* The statistics without the time of their computation
Figures(stats) == [f \in DOMAIN stats \ {"lastUpdated"} |-> stats[f]]

\* C4: statistics that the cache would serve were computed from the record
\* snapshot that is cached now, under any interleaving of requests, failed
\* reads included
C4_CachedStatsAreOfCachedRecords ==
  StatsHit =>
    Figures(Val(cachedStats)) =
      Figures(computeStatistics(Val(cachedRecords), now))

\* A handler takes up a request and starts to read the source
StartsRead(p) == pc[p] = "idle" /\ pc'[p] = "readFile"

\* A request is answered in the step in which it is taken up
AnsweredAtOnce == pc' = pc /\ sent' # sent

C5_Step ==
  /\ \A p \in Procs : StartsRead(p) => ~RecordsValid
  /\ \A p \in Procs :
       StartsRead(p) /\ call'[p].method = "GET" => ~StatsValid
  /\ AnsweredAtOnce /\ sent'.call.method = "GET" /\ ~sent'.hit => ~StatsValid
  /\ RecordsValid /\ AnsweredAtOnce /\ sent'.call.method = "POST" =>
       /\ sent'.hit
       /\ sent'.from = cachedRecords
       /\ UNCHANGED cache
  /\ StatsValid /\ AnsweredAtOnce /\ sent'.call.method = "GET" =>
       /\ sent'.hit
       /\ sent'.response.body.statistics = Val(cachedStats)
       /\ UNCHANGED cache

\* C5: the source is read only when no record snapshot is cached or the
\* cached one is at least CACHE_TTL_MS old; a call made earlier gets the
\* cached snapshot and leaves the cache as it is; statistics are computed
\* only when none are cached or the cache entry has expired, and are served
\* as cached otherwise
C5_ReadsOnlyWhenMissingOrExpired == [][C5_Step]_vars

\* A request was answered from a snapshot loaded one tick before, and a
\* statistics query from the statistics cached with it
C5_ServedFromCacheWithinTTL ==
  /\ RecordsValid
  /\ StatsValid
  /\ now - Val(cacheTimestamp) = TickMs
  /\ sent.call.method = "GET"
  /\ sent.hit
  /\ sent.response.body.statistics = Val(cachedStats)

\* Statistics of a cached record snapshot are cached and are less than the
\* time to live old, by the time of their own computation
StatsYoung ==
  IF IsNull(cachedStats) \/ IsNull(cachedRecords) THEN FALSE
  ELSE now - Val(cachedStats).lastUpdated < CACHE_TTL_MS

C6_Step ==
  /\ StatsYoung => \A p \in Procs :
       ~(StartsRead(p) /\ call'[p].method = "GET")
  /\ StatsYoung /\ AnsweredAtOnce /\ sent'.call.method = "GET" => sent'.hit
  /\ ~IsNull(cachedStats) /\ ~StatsYoung /\ RecordsValid => \A p \in Procs :
       ~(StartsRead(p) /\ call'[p].method = "GET")

\* C6: the statistics expire by their own age, whatever the age of the
\* records: a statistics query is served from the cache while the statistics
\* are less than CACHE_TTL_MS old, and when they are older and the record
\* snapshot still valid they are computed again without reading the source
C6_StatsExpireOnTheirOwn == [][C6_Step]_vars

\* The snapshot in the cache is the whole result of parsing one text
SnapshotComplete ==
  \/ IsNull(cachedRecords)
  \/ \E i \in DOMAIN Parsed : Val(cachedRecords) = Parsed[i]

C7_Step ==
  cachedRecords' # cachedRecords \/ cacheTimestamp' # cacheTimestamp =>
    /\ source # Unreadable
    /\ cachedRecords' = Some(Parsed[source])
    /\ cacheTimestamp' = Some(now)
    /\ cachedStats' = Null

\* C7: the record snapshot in the cache is absent or the whole result of one
\* parse, and it has a timestamp exactly when it is there; a step that
\* replaces it sets the records, their timestamp and the invalidation of the
\* statistics together
C7_OneCompleteSnapshot ==
  /\ [](SnapshotComplete /\ (IsNull(cachedRecords) <=> IsNull(cacheTimestamp)))
  /\ [][C7_Step]_vars

\* A refresh has replaced an earlier snapshot while another read is under way
C7_SnapshotReplacedDuringRead ==
  /\ ~IsNull(cachedRecords)
  /\ Val(cacheTimestamp) > StartMs
  /\ IsNull(cachedStats)
  /\ \E p, q \in Procs : pc[p] = "resume" /\ pc[q] = "readFile"

\* readFile rejects for handler p
ReadFails(p) == pc[p] = "readFile" /\ outcome'[p] = "rejected"

\* C8: when the read of the source fails, loadEHRData leaves cachedRecords,
\* cacheTimestamp and cachedStats as they are and returns an empty record
\* set to its caller, which goes on
C8_FailedReadKeepsCache ==
  [][\A p \in Procs :
       ReadFails(p) =>
         /\ UNCHANGED cache
         /\ loaded'[p] = <<>>
         /\ pc'[p] = "resume"]_vars

\* A read has failed while a snapshot and statistics were cached
C8_ReadFailedWithSnapshotCached ==
  /\ \E p \in Procs : pc[p] = "resume" /\ outcome[p] = "rejected"
  /\ ~IsNull(cachedRecords)
  /\ ~IsNull(cachedStats)

(***************************************************************************)
(* Failures                                                                *)
(***************************************************************************)
\* C9: when the read of the source fails while a filter, sql or aggregate
\* request or the statistics query is served, the response is an explicit
\* error, success false with an error message, never a success
C9_FailedReadAnsweredWithError ==
  sent.call.method # "none" /\ sent.read = "rejected" =>
    /\ ~sent.response.body.success
    /\ Has(sent.response.body, "error")

\* The body lacks the field its type requires
LacksRequired(body) ==
  IF body.type = "filter" THEN ~Has(body, "filters")
  ELSE IF body.type = "sql" THEN ~Has(body, "query")
  ELSE ~Has(body, "groupBy")

Malformed(body) == IF Invalid(body) THEN TRUE ELSE LacksRequired(body)

\* C10: a request without type, of unknown type, or without the field its
\* type requires is answered with status 400, and the dataset cache is
\* neither read nor refreshed for it
C10_MalformedRequestRejected ==
  (IF sent.call.method = "POST" /\ Has(sent.call, "body")
   THEN Malformed(sent.call.body) ELSE FALSE) =>
    /\ sent.response.status = 400
    /\ sent.read = "none" /\ ~sent.hit

(***************************************************************************)
(* The shape of the responses                                              *)
(***************************************************************************)
\* The QueryResponse reports success: a data object and nothing else
IsSuccess(body) ==
  /\ DOMAIN body = {"success", "data"}
  /\ body.success
  /\ \/ DOMAIN body.data = {"records", "stats"}
     \/ DOMAIN body.data = {"aggregations", "stats"}

\* The QueryResponse reports a failure: an error message and nothing else
IsFailure(body) ==
  /\ DOMAIN body = {"success", "error"}
  /\ ~body.success
  /\ body.error # ""

\* C11: every response of POST, to any request, is either success true with
\* a data object and no error, or success false with an error message and
\* no data
C11_SuccessOrErrorNeverBoth ==
  sent.call.method = "POST" =>
    IsSuccess(sent.response.body) \/ IsFailure(sent.response.body)

\* A filter request without filters was answered after a filter request
\* that succeeded: the executor's catch made the response
C11_ExecutorFailureAnswered ==
  /\ sent.call.method = "POST"
  /\ Has(sent.call, "body")
  /\ sent.call.body = [type |-> "filter"]
  /\ IsFailure(sent.response.body)
  /\ ~IsNull(cachedRecords)

(***************************************************************************)
(* The filter request                                                      *)
(***************************************************************************)
SentinelFields == {"condition", "medication", "region", "gender", "diagnosis"}

\* The object without the property k
Without(obj, k) == [x \in DOMAIN obj \ {k} |-> obj[x]]

\* The request with the property k of its filters left out
Omitting(body, k) == [body EXCEPT !.filters = Without(body.filters, k)]

\* C12: in a filter request, "all" for condition, medication, region, gender
\* or diagnosis yields the records and the totalMatched that the request
\* without that field yields, whatever the other filters and the limit
C12_AllIsLikeAbsent ==
  Answers("filter") =>
    \A k \in SentinelFields :
      (IF Has(sent.call.body.filters, k)
       THEN sent.call.body.filters[k] = sAll ELSE FALSE) =>
        Data = executeFilterQuery(Omitting(sent.call.body, k),
                                  Val(sent.from)).data

\* A request with gender "all" and a condition was answered with the records
\* the condition alone selects, which are not all records
C12_AllGivenWithAnotherFilter ==
  /\ Answers("filter")
  /\ DOMAIN sent.call.body.filters = {"gender", "condition"}
  /\ sent.call.body.filters.gender = sAll
  /\ Len(Data.records) >= 1
  /\ Len(Data.records) < Len(Val(sent.from))

(***************************************************************************)
(* The sql request                                                         *)
(***************************************************************************)
\* The plan of a query without clauses
DefaultPlan ==
  [select |-> << <<"*">> >>, where |-> <<>>, groupBy |-> Null, limit |-> Null]

\* What parseSimpleSQL returns has the four parts of a plan
IsPlan(plan) ==
  /\ DOMAIN plan = {"select", "where", "groupBy", "limit"}
  /\ Len(plan.select) >= 1
  /\ \A k \in DOMAIN plan.where : Len(plan.where[k]) >= 1
  /\ IsNull(plan.groupBy) \/ Len(Val(plan.groupBy)) >= 1
  /\ IsNull(plan.limit) \/ Val(plan.limit) >= 0

\* C13: parseSimpleSQL returns a plan for every query; for an empty query
\* and for one of white space only the plan is select ["*"], no predicates,
\* no group-by and no limit, and executing it returns the first
\* min(N, DEFAULT_LIMIT) records of the snapshot with totalMatched N
C13_EmptyQueryDefaults ==
  Answers("sql") =>
    /\ IsPlan(planFor(sent.call.body.query))
    /\ trim(sent.call.body.query) = <<>> =>
         /\ planFor(sent.call.body.query) = DefaultPlan
         /\ Data.records =
              Take(Val(sent.from), Min(Len(Val(sent.from)), DEFAULT_LIMIT))
         /\ Data.stats.totalMatched = Len(Val(sent.from))

\* A query of white space only was answered from a snapshot of three records
C13_BlankQueryAnswered ==
  /\ Answers("sql")
  /\ sent.call.body.query = QueryBlank
  /\ Len(Val(sent.from)) = 3
  /\ Len(Data.records) = 3

\* The last response answers the sql request with the given query
AnswersQuery(query) ==
  IF Answers("sql") THEN sent.call.body.query = query ELSE FALSE

\* The record lists the symptom
HasSymptom(r, symptom) == \E i \in DOMAIN r.symptoms : r.symptoms[i] = symptom

\* C14: the value of condition LIKE '%abet%' is stored in the plan without
\* the leading and the trailing %, and the query returns every record with
\* the symptom Diabetes, the records that condition = 'Diabetes' returns
C14_LikeStripsBothPercents ==
  AnswersQuery(QueryLikeAbet) =>
    /\ planFor(QueryLikeAbet).where[kCondition] = sAbet
    /\ \A i \in DOMAIN Val(sent.from) :
         HasSymptom(Val(sent.from)[i], sDiabetes) =>
           Val(sent.from)[i] \in Range(Data.records)
    /\ Data.records =
         sqlResponse(planFor(QueryEqDiabetes), Val(sent.from)).data.records

\* The predicates that the conditions of the WHERE clause of a query state
FemaleAndDiabetes == kGender :> sFemale @@ kCondition :> sDiabetes
MaleAndKanto == kGender :> sMale @@ kRegion :> sKanto

\* C15: a WHERE clause of conditions joined by AND, in any letter case and
\* with any white space between, line breaks included, gives a plan with one
\* predicate for each condition of a known shape; a condition of no known
\* shape is dropped and the others stay
C15_AndGivesOnePredicateEach ==
  /\ AnswersQuery(QueryFemaleDiabetes) =>
       planFor(QueryFemaleDiabetes).where = FemaleAndDiabetes
  /\ AnswersQuery(QueryFemaleDiabetesLines) =>
       planFor(QueryFemaleDiabetesLines).where = FemaleAndDiabetes
  /\ AnswersQuery(QueryDroppedCondition) =>
       planFor(QueryDroppedCondition).where = MaleAndKanto

\* The last response answers a sql request that groups by age
GroupsByAge ==
  IF Answers("sql")
  THEN planFor(sent.call.body.query).groupBy
         \in {Some(kAgeGroup), Some(kAge)}
  ELSE FALSE

\* C16: a sql request that groups by age_group or by age counts each
\* filtered record under its age group of the statistics (0-17, 18-29,
\* 30-44, 45-59, 60-74, 75+): the groups and counts are those of the
\* ageDistribution that getEHRStatistics computes for the same records
C16_SqlAgeGroupsAreThoseOfStatistics ==
  GroupsByAge =>
    Range(Data.aggregations) =
      Range(computeStatistics(Matching, now).demographics.ageDistribution)

\* The group of a record under the group-by field of the plan
GroupOf(groupBy, r) == sqlKeys(groupBy, <<r>>)[1]

\* The number of the records that fall in the group
InGroup(groupBy, records, group) ==
  Cardinality({i \in DOMAIN records : GroupOf(groupBy, records[i]) = group})

\* The records with a symptom that contains "diabetes", in any letter case
Diabetics(records) ==
  Filter(records, LAMBDA r : hasCondition(r, toLowerCase(sDiabetes)))

\* C17: a sql request whose plan has a group-by field is answered with
\* aggregations and no records; the records that pass the WHERE predicates
\* are counted, every one of them whatever LIMIT says; grouping two Male and
\* one Female record by gender gives Male 2, Female 1
C17_GroupByCountsFilteredRecords ==
  (IF Answers("sql") THEN Grouped(sent.call.body) ELSE FALSE) =>
    /\ DOMAIN Data = {"aggregations", "stats"}
    /\ \A e \in Range(Data.aggregations) :
         e[2] = InGroup(Val(planFor(sent.call.body.query).groupBy),
                        Matching, e[1])
    /\ Cardinality(Range(Keys(Data.aggregations))) = Len(Data.aggregations)
    /\ SumCounts(Data.aggregations) = Len(Matching)
    /\ sent.call.body.query = QueryDiabetesByAge =>
         Matching = Diabetics(Val(sent.from))
    /\ sent.call.body.query = QueryByGenderLimit1 =>
         Data = sqlResponse(planFor(QueryByGender), Val(sent.from)).data
    /\ sent.call.body.query = QueryByGender /\ Val(sent.from) = Parsed[1] =>
         Data.aggregations = << <<sMale, 2>>, <<sFemale, 1>> >>

\* Two records with diabetes were counted in two groups though the query
\* ends with LIMIT 1
C17_GroupedBeyondLimit ==
  /\ AnswersQuery(QueryDiabetesByAge)
  /\ planFor(QueryDiabetesByAge).limit = Some(1)
  /\ Len(Data.aggregations) = 2
  /\ Data.stats.totalMatched = 2

\* The filter field is given: present, and for a string neither empty nor
\* "all"
Given(filters, f) ==
  IF Has(filters, f)
  THEN f \in {"ageMin", "ageMax"} \/ filters[f] \notin {<<>>, sAll}
  ELSE FALSE

\* Some string of the list contains the value, letter case apart
SomeContains(list, value) ==
  \E i \in DOMAIN list : includes(toLowerCase(list[i]), toLowerCase(value))

Diagnoses(r) == [i \in DOMAIN r.pastVisits |-> r.pastVisits[i].diagnosis]

\* The record satisfies every filter that is given
Meets(r, filters) ==
  /\ Given(filters, "ageMin") => filters.ageMin <= r.age
  /\ Given(filters, "ageMax") => r.age <= filters.ageMax
  /\ Given(filters, "condition") => SomeContains(r.symptoms, filters.condition)
  /\ Given(filters, "medication") =>
       SomeContains(r.medicationHistory, filters.medication)
  /\ Given(filters, "region") => SomeContains(<<r.region>>, filters.region)
  /\ Given(filters, "gender") =>
       toLowerCase(r.gender) = toLowerCase(filters.gender)
  /\ Given(filters, "diagnosis") =>
       SomeContains(Diagnoses(r), filters.diagnosis)

Wanted == Filter(Val(sent.from), LAMBDA r : Meets(r, sent.call.body.filters))

\* C18: the records a filter request matches are those of the snapshot that
\* satisfy all filters given: the age bounds inclusive, the string tests
\* without regard to letter case.  The response lists them in their order,
\* all of them when the request has no limit.
C18_FilterIsTheConjunction ==
  Answers("filter") =>
    /\ Matching = Wanted
    /\ Data.records = Take(Wanted, Len(Data.records))
    /\ ~Has(sent.call.body, "limit") => Data.records = Wanted
    /\ (/\ ~Has(sent.call.body, "limit")
        /\ sent.call.body.filters = ("ageMin" :> 40 @@ "ageMax" :> 80)
        /\ Val(sent.from) = Parsed[1]) =>
         /\ [i \in DOMAIN Data.records |-> Data.records[i].age] = <<45, 70>>
         /\ Data.stats.totalMatched = 2

\* A request with the bounds 45 and 70 was answered with the records of age
\* 45 and 70, out of three
C18_BoundsIncluded ==
  /\ Answers("filter")
  /\ sent.call.body.filters = ("ageMin" :> 45 @@ "ageMax" :> 70)
  /\ Len(Val(sent.from)) = 3
  /\ [i \in DOMAIN Data.records |-> Data.records[i].age] = <<45, 70>>

\* The record satisfies the predicate key = value of a plan
Satisfies(r, key, value) ==
  IF key = kGender THEN toLowerCase(r.gender) = toLowerCase(value)
  ELSE IF key = kRegion THEN SomeContains(<<r.region>>, value)
  ELSE IF key \in {kCondition, kSymptom} THEN SomeContains(r.symptoms, value)
  ELSE IF key = kMedication THEN SomeContains(r.medicationHistory, value)
  ELSE IF key = kDiagnosis THEN SomeContains(Diagnoses(r), value)
  ELSE IF key = kAge THEN Some(r.age) = parseInt(value)
  ELSE TRUE

SatisfiesAll(r, where) == \A key \in DOMAIN where : Satisfies(r, key, where[key])

\* C19: every predicate in the where map of the plan of a sql request
\* restricts the result: each record returned, and each record counted in
\* totalMatched or in a group, satisfies all of them; a diagnosis predicate
\* has the meaning the filter request gives it
C19_EveryPredicateRestricts ==
  Answers("sql") =>
    /\ \A i \in DOMAIN Matching :
         SatisfiesAll(Matching[i], planFor(sent.call.body.query).where)
    /\ Has(Data, "records") =>
         \A i \in DOMAIN Data.records :
           SatisfiesAll(Data.records[i], planFor(sent.call.body.query).where)

(***************************************************************************)
(* Adding a predicate                                                      *)
(***************************************************************************)
\* <<q, q+>>: the query q+ is the query q with one more condition in its
\* WHERE clause
OneMoreCondition ==
  { <<QueryAll, QueryFemale>>,
    <<QueryAll, QueryEqDiabetes>>,
    <<QueryFemale, QueryFemaleDiabetes>>,
    <<QueryFemale, QueryFemaleAndMale>> }

\* The aggregate request with the property k of its filter left out
OmittingOfFilter(body, k) == [body EXCEPT !.filter = Without(body.filter, k)]

\* The number of records that a request matches, as its response tells it
Matched(body, records) == execute(body, records).data.stats.totalMatched

MonotoneFilter ==
  Answers("filter") =>
    \A k \in DOMAIN sent.call.body.filters :
      Data.stats.totalMatched
        <= Matched(Omitting(sent.call.body, k), Val(sent.from))

MonotoneSql ==
  Answers("sql") =>
    \A pair \in OneMoreCondition :
      sent.call.body.query = pair[2] =>
        Data.stats.totalMatched
          <= Matched([type |-> "sql", query |-> pair[1]], Val(sent.from))

MonotoneAggregate ==
  (IF Answers("aggregate") THEN Has(sent.call.body, "filter") ELSE FALSE) =>
    \A k \in DOMAIN sent.call.body.filter :
      Data.stats.totalMatched
        <= Matched(OmittingOfFilter(sent.call.body, k), Val(sent.from))

\* C20: for a filter request, the WHERE clause of a sql request and the
\* filter of an aggregate request, one more predicate joined by AND never
\* makes the matched count greater than it is without that predicate
C20_OneMorePredicateNeverAddsMatches ==
  MonotoneFilter /\ MonotoneSql /\ MonotoneAggregate

(***************************************************************************)
(* The order of the records returned                                       *)
(***************************************************************************)
\* The record satisfies every predicate of the request: the filters given,
\* or the predicates of the plan
Passes(r, body) ==
  IF body.type = "filter" THEN Meets(r, body.filters)
  ELSE SatisfiesAll(r, planFor(body.query).where)

\* The records of the snapshot that satisfy every predicate, in its order
Passing == Filter(Val(sent.from), LAMBDA r : Passes(r, sent.call.body))

\* The sequence picks elements of the other at increasing positions
IsSubsequence(sub, seq) ==
  \E pick \in [DOMAIN sub -> DOMAIN seq] :
    /\ \A i, j \in DOMAIN sub : i < j => pick[i] < pick[j]
    /\ \A i \in DOMAIN sub : sub[i] = seq[pick[i]]

\* C21: the records returned by a filter request and by a sql request
\* without GROUP BY are the first L records, in the order of the snapshot,
\* that satisfy every predicate, L the effective limit: a subsequence of
\* the snapshot, without a record that fails a predicate
C21_FirstMatchingInSnapshotOrder ==
  Listing =>
    /\ IsSubsequence(Data.records, Val(sent.from))
    /\ \A i \in DOMAIN Data.records : Passes(Data.records[i], sent.call.body)
    /\ Data.records = Take(Passing, EffectiveLimit(sent.call.body))

(***************************************************************************)
(* The records of a source text                                            *)
(***************************************************************************)
\* A line that is not blank and stands after the first such line, the header
IsDataLine(lines, i) ==
  /\ NotBlank(lines[i])
  /\ \E j \in 1..(i - 1) : NotBlank(lines[j])

\* The positions of the data lines that tokenize into enough fields
RecordLines(lines) ==
  {i \in DOMAIN lines :
     IsDataLine(lines, i) /\ Len(parseCSVRow(lines[i])) >= MIN_FIELDS}

\* The age a field stands for: its leading integer, 0 when it has none
AgeIn(field) == IF IsNull(parseInt(field)) THEN 0 ELSE Val(parseInt(field))

\* The record carries the tokens of the line
IsRecordOf(record, line) ==
  \E fields \in {parseCSVRow(line)} :
    /\ record.fullName = fields[1]
    /\ record.age = AgeIn(fields[2])
    /\ record.gender = fields[3]
    /\ record.region = fields[4]
    /\ record.address = fields[5]
    /\ record.symptoms = parseListField(fields[6])
    /\ record.medicationHistory = parseListField(fields[7])
    /\ record.pastVisits = parsePastVisits(fields[8])
    /\ record.phoneNumber = fields[9]
    /\ record.insuranceId = fields[10]

\* The records are those of the record lines, one each, in their order
OnePerRecordLine(records, lines) ==
  \E recordLines \in {RecordLines(lines)} :
    \E at \in [DOMAIN records -> recordLines] :
      /\ \A i, j \in DOMAIN records : i < j => at[i] < at[j]
      /\ \A l \in recordLines : \E i \in DOMAIN records : at[i] = l
      /\ \A i \in DOMAIN records : IsRecordOf(records[i], lines[at[i]])

\* The source texts whose parsed records are those of their record lines
TextsAsClaimed ==
  {i \in DOMAIN Contents : OnePerRecordLine(Parsed[i], Contents[i])}

\* C22: a load of a source text yields one record for every data line, the
\* lines after the header that are not blank, that tokenizes into at least
\* 10 fields, in the order of the text and without removing a repeated
\* line; a line with fewer tokens is skipped and an age that is no number
\* becomes 0
C22_OneRecordPerDataLine ==
  (~IsNull(cachedRecords) /\ source # Unreadable) =>
    /\ Val(cachedRecords) = Parsed[source]
    /\ source \in TextsAsClaimed

\* A text with a blank line, a short line and an age that is no number has
\* been loaded, and so has a text with the same line twice
C22_SkippedLinesAndZeroAge ==
  /\ ~IsNull(cachedRecords)
  /\ \/ /\ source = 2
        /\ Len(Val(cachedRecords)) = 2
        /\ Val(cachedRecords)[1].age = 0
     \/ /\ source = 4
        /\ Len(Val(cachedRecords)) = 2
        /\ Val(cachedRecords)[1] = Val(cachedRecords)[2]

(***************************************************************************)
(* The visits of a visit text                                              *)
(***************************************************************************)
\* The bracketed groups of the text, as pairs of the positions of "[" and
\* "]": the first "[" after the last "]" before it, up to the next "]",
\* with at least one character between them
BracketSpans(v) ==
  LET opens == {i \in DOMAIN v : v[i] = "["}
      closes == {i \in DOMAIN v : v[i] = "]"}
  IN {g \in opens \X closes :
        /\ g[2] > g[1] + 1
        /\ \A k \in closes : ~(g[1] < k /\ k < g[2])
        /\ \A j \in opens :
             j < g[1] => \E k \in closes : j < k /\ k < g[1]}

ColonsIn(v, g) == {c \in (g[1] + 1)..(g[2] - 1) : v[c] = ":"}

ColonSpans(v) == {g \in BracketSpans(v) : ColonsIn(v, g) # {}}

\* The k-th of the spans from the left
SpanAt(spans, k) ==
  CHOOSE g \in spans : Cardinality({h \in spans : h[1] <= g[1]}) = k

FirstColon(v, g) ==
  CHOOSE c \in ColonsIn(v, g) : \A d \in ColonsIn(v, g) : c <= d

\* One visit for every span, in the order of the text, the group split at
\* its first colon and both parts trimmed
IsVisitsIn(visits, v, spans) ==
  /\ Len(visits) = Cardinality(spans)
  /\ \A k \in DOMAIN visits :
       LET g == SpanAt(spans, k)
           c == FirstColon(v, g)
       IN visits[k] = [date |-> trim(SubSeq(v, g[1] + 1, c - 1)),
                       diagnosis |-> trim(SubSeq(v, c + 1, g[2] - 1))]

\* One visit for every group with a colon
IsVisitsOf(visits, v) ==
  \E spans \in {ColonSpans(v)} : IsVisitsIn(visits, v, spans)

\* The source texts whose records carry the visits of their visit fields
TextsWithVisitsAsClaimed ==
  {i \in DOMAIN Contents :
     \E at \in {SortedSeq(RecordLines(Contents[i]))} :
       \A k \in DOMAIN Parsed[i] :
         \E fields \in {parseCSVRow(Contents[i][at[k]])} :
           IsVisitsOf(Parsed[i][k].pastVisits, fields[8])}

sVisitsExample == <<"[","2","0","2","4","-","1","0","-","0","6",":"," ","F","e","v","e","r","]",","," ","[","2","0","2","4","-","0","8","-","1","6",":"," ","A","l","l","e","r","g","i","c"," ","R","h","i","n","i","t","i","s","]">>
sRhinitis == <<"A","l","l","e","r","g","i","c"," ","R","h","i","n","i","t","i","s">>

\* C23: the visit text of a record yields one visit, a date and a
\* diagnosis, for every bracketed group that contains a colon, split at
\* the first colon, both parts trimmed, in the order of the text; a group
\* without colon is skipped; the example of two groups gives two visits
C23_OneVisitPerGroupWithColon ==
  (~IsNull(cachedRecords) /\ source # Unreadable) =>
    /\ source \in TextsWithVisitsAsClaimed
    /\ Val(cachedRecords) = Parsed[source]
    /\ parsePastVisits(sVisitsExample) =
         <<[date |-> <<"2","0","2","4","-","1","0","-","0","6">>,
            diagnosis |-> <<"F","e","v","e","r">>],
           [date |-> <<"2","0","2","4","-","0","8","-","1","6">>,
            diagnosis |-> sRhinitis]>>

\* Loaded: a record whose visit text has a group without colon before a
\* group with one, and a record with a group of two colons
C23_GroupWithoutColonSkipped ==
  /\ ~IsNull(cachedRecords)
  /\ \/ /\ source = 2
        /\ Len(Val(cachedRecords)[1].pastVisits) = 1
        /\ Val(cachedRecords)[1].pastVisits[1].diagnosis = <<"F","e","v","e","r">>
     \/ /\ source = 4
        /\ Val(cachedRecords)[1].pastVisits[3].diagnosis
             = <<"F","l","u",":"," ","m","i","l","d">>

(***************************************************************************)
(* The statistics                                                          *)
(***************************************************************************)
\* A statistics query has been answered with statistics computed in that
\* call, from the records Derived
Computed == sent.call.method = "GET" /\ ~IsNull(sent.from)

Statistics == sent.response.body.statistics

Derived == Val(sent.from)

Regions == [i \in DOMAIN Derived |-> Derived[i].region]
Conditions == Flatten([i \in DOMAIN Derived |-> Derived[i].symptoms])
Medications ==
  Flatten([i \in DOMAIN Derived |-> Derived[i].medicationHistory])
Visits == Flatten([i \in DOMAIN Derived |-> Derived[i].pastVisits])
VisitDiagnoses == [i \in DOMAIN Visits |-> Visits[i].diagnosis]

Occurrences(keys, key) == Cardinality({i \in DOMAIN keys : keys[i] = key})

\* The entries are listed from the highest count to the lowest
CountsDescend(dist) ==
  \A i, j \in DOMAIN dist : i < j => dist[i][2] >= dist[j][2]

\* The distribution holds min(K, cap) of the K keys, each once and with the
\* number of its occurrences, and no key left out occurs more often than
\* a key it holds
HoldsTop(dist, keys, cap) ==
  /\ Len(dist) = Min(Cardinality(Range(keys)), cap)
  /\ \A i, j \in DOMAIN dist : dist[i][1] = dist[j][1] => i = j
  /\ \A e \in Range(dist) : e[2] > 0 /\ e[2] = Occurrences(keys, e[1])
  /\ \A k \in Range(keys) \ Range(Keys(dist)) :
       \A e \in Range(dist) : Occurrences(keys, k) <= e[2]

\* The totals count every record and every visit
TotalsUncapped ==
  /\ Statistics.totalRecords = Len(Derived)
  /\ Statistics.visitStats.totalVisits = Len(Visits)
  /\ Statistics.medications.patientsOnMedication =
       Cardinality({i \in DOMAIN Derived :
                      Derived[i].medicationHistory # <<>>})
  /\ Statistics.medications.patientsNoMedication =
       Cardinality({i \in DOMAIN Derived :
                      Derived[i].medicationHistory = <<>>})

AllHoldTop ==
  /\ HoldsTop(Statistics.demographics.regionDistribution, Regions,
              TOP_REGIONS)
  /\ HoldsTop(Statistics.conditions.chronicConditions, Conditions,
              TOP_DEFAULT)
  /\ HoldsTop(Statistics.conditions.topDiagnoses, VisitDiagnoses,
              TOP_DEFAULT)
  /\ HoldsTop(Statistics.medications.topMedications, Medications,
              TOP_DEFAULT)

AllDescend ==
  /\ CountsDescend(Statistics.demographics.regionDistribution)
  /\ CountsDescend(Statistics.conditions.chronicConditions)
  /\ CountsDescend(Statistics.conditions.topDiagnoses)
  /\ CountsDescend(Statistics.medications.topMedications)

\* C24: in the statistics computed from a snapshot, the distributions of
\* regions, chronic conditions, diagnoses and medications list their
\* entries from the highest count to the lowest and hold the min(K, cap)
\* keys of highest count, cap 30 for regions and 20 for the others; the
\* totals of records, of visits and of patients on and off medication count
\* everything
C24_CappedDistributionsDescend ==
  Computed => AllDescend /\ AllHoldTop /\ TotalsUncapped

\* C25: in the statistics of a snapshot every record counts
\* once, as a patient on medication when its medication history is not
\* empty, however many medications it lists, and as a patient without
\* medication otherwise, so that the two counts add up to totalRecords; the
\* counts of the age groups and the counts of the genders add up to
\* totalRecords each
C25_EveryRecordCountedOnce ==
  /\ sent.call.method = "GET" =>
       /\ Statistics.medications.patientsOnMedication
            + Statistics.medications.patientsNoMedication
            = Statistics.totalRecords
       /\ SumCounts(Statistics.demographics.ageDistribution)
            = Statistics.totalRecords
       /\ SumCounts(Statistics.demographics.genderDistribution)
            = Statistics.totalRecords
  /\ Computed =>
       /\ Statistics.totalRecords = Len(Derived)
       /\ Statistics.medications.patientsOnMedication =
            Cardinality({i \in DOMAIN Derived :
                           Len(Derived[i].medicationHistory) >= 1})

\* Statistics of three records: one without medication, one with one
\* medication and one with two
C25_OneTwoAndNoMedication ==
  /\ Computed
  /\ Statistics.totalRecords = 3
  /\ Statistics.medications.patientsOnMedication = 2
  /\ Statistics.medications.patientsNoMedication = 1
  /\ \E i \in DOMAIN Derived : Len(Derived[i].medicationHistory) = 2
  /\ SumCounts(Statistics.medications.topMedications) = 3

\* The date has a '-' with something before it
HasYear(date) == indexOf(date, "-") >= 1

\* The part of the date before its first '-'
YearIn(date) == SubSeq(date, 1, indexOf(date, "-"))

\* The visits of the records whose date has a year
Dated == {i \in DOMAIN Visits : HasYear(Visits[i].date)}

\* C26: in the statistics computed from a snapshot totalVisits is the
\* number of past visits of all records; visitsByYear counts every visit
\* under the part of its date before the first '-', and a visit whose date
\* has no '-' or nothing before it under no year, so that the counts of
\* visitsByYear add up to at most totalVisits
C26_VisitsByYearOfDatedVisits ==
  Computed =>
    /\ Statistics.visitStats.totalVisits = Len(Visits)
    /\ Range(Statistics.visitStats.visitsByYear) =
         {<<YearIn(Visits[i].date),
            Cardinality({j \in Dated :
                           YearIn(Visits[j].date) = YearIn(Visits[i].date)})>> :
            i \in Dated}
    /\ SumCounts(Statistics.visitStats.visitsByYear)
         <= Statistics.visitStats.totalVisits

(***************************************************************************)
(* The snapshot and its timestamp                                          *)
(***************************************************************************)
\* readFile resolves for handler p and the load completes
LoadCompletes(p) == pc[p] = "readFile" /\ outcome'[p] = "resolved"

C27_Step ==
  /\ \A p \in Procs :
       LoadCompletes(p) =>
         /\ cachedRecords' = Some(loaded'[p])
         /\ cacheTimestamp' = Some(now)
         /\ now' = now
  /\ (cachedRecords' # cachedRecords \/ cacheTimestamp' # cacheTimestamp) =>
       \E p \in Procs : LoadCompletes(p)
  /\ ~IsNull(cacheTimestamp) =>
       /\ ~IsNull(cacheTimestamp')
       /\ Val(cacheTimestamp') >= Val(cacheTimestamp)

\* C27: however loads and statistics queries interleave, and whether their
\* reads succeed or fail, the cache holds records exactly when it holds a
\* timestamp, the timestamp is the time at which the load that produced the
\* records completed, and the timestamp never decreases
C27_TimestampOfTheCachedSnapshot ==
  /\ []((IsNull(cachedRecords) <=> IsNull(cacheTimestamp))
        /\ (~IsNull(cacheTimestamp) => Val(cacheTimestamp) <= now))
  /\ [][C27_Step]_vars

\* A later load has replaced the snapshot, and after it a read has failed
\* for a statistics query
C27_LaterLoadThenFailedRead ==
  /\ ~IsNull(cachedRecords)
  /\ Val(cacheTimestamp) > StartMs
  /\ Val(cacheTimestamp) < now
  /\ \E p \in Procs :
       pc[p] = "resume" /\ outcome[p] = "rejected" /\ call[p].method = "GET"

\* Handler p goes on after its read and answers
Resumes(p) == pc[p] = "resume"

C28_Step ==
  /\ ~RecordsValid => ~AnsweredAtOnce
  /\ \A p \in Procs :
       /\ pc[p] = "idle" => pc'[p] \in {"idle", "readFile"}
       /\ pc[p] = "readFile" => pc'[p] \in {"readFile", "resume"}
       /\ ReadFails(p) => UNCHANGED cache /\ loaded'[p] = <<>>
       /\ LoadCompletes(p) => loaded'[p] = Parsed[source]
       /\ Resumes(p) =>
            /\ pc'[p] = "idle"
            /\ sent'.call = call[p]
            /\ ~sent'.hit
            /\ outcome[p] = "rejected" => loaded[p] = <<>>
            /\ outcome[p] = "resolved" => loaded[p] = Parsed[source]
            /\ call[p].method = "POST" =>
                 sent'.response.body.data.records = loaded[p]
            /\ call[p].method = "GET" =>
                 sent'.response.body.statistics.totalRecords = Len(loaded[p])

\* C28: a record snapshot that is CACHE_TTL_MS old or older is never
\* returned: a call made then reads the source, once; if the read fails the
\* call returns the empty record set and the cache is left as it was, so
\* that the next call reads again; if the read succeeds the call returns
\* the records parsed from the source as it is then
C28_ExpiredSnapshotNeverReturned == [][C28_Step]_vars

\* A request was answered with no records after its read failed, while the
\* cache holds a snapshot with records that has expired
C28_EmptyAnswerOverExpiredSnapshot ==
  /\ sent.call.method = "POST"
  /\ sent.read = "rejected"
  /\ sent.response.body.data.records = <<>>
  /\ ~IsNull(cachedRecords)
  /\ Val(cachedRecords) # <<>>
  /\ ~RecordsValid

\* A statistics query is answered from the cache
ServesCachedStats ==
  AnsweredAtOnce /\ sent'.call.method = "GET" /\ sent'.hit

C29_Step ==
  ServesCachedStats =>
    /\ ~IsNull(cacheTimestamp)
    /\ now - Val(cacheTimestamp) < CACHE_TTL_MS
    /\ ~IsNull(cachedRecords)
    /\ Figures(sent'.response.body.statistics) =
         Figures(computeStatistics(Val(cachedRecords), now))

\* C29: a statistics query is served from the cache only while the record
\* snapshot the statistics were computed from is less than CACHE_TTL_MS
\* old: never without a timestamp, never at that age or later, and never
\* statistics that were computed from the empty result of a failed load
C29_CachedStatsOnlyOfValidSnapshot == [][C29_Step]_vars

(***************************************************************************)
(* GROUP BY a field without a case                                         *)
(***************************************************************************)
\* The fields a sql request can group by
GroupFields == {kAgeGroup, kAgegroup, kAge, kGender, kRegion}

\* A sql request has been answered whose plan groups by another field
GroupsByOtherField ==
  IF Answers("sql")
  THEN IF IsSet(planFor(sent.call.body.query).groupBy)
       THEN Val(planFor(sent.call.body.query).groupBy) \notin GroupFields
       ELSE FALSE
  ELSE FALSE

\* C30: a sql request whose GROUP BY names a field other than age_group,
\* agegroup, age, gender and region does not fail: every record that passes
\* the WHERE predicates is counted under the key "unknown", so that the
\* response maps unknown to totalMatched when a record matches and is the
\* empty mapping when none does
C30_OtherFieldCountsUnderUnknown ==
  GroupsByOtherField =>
    /\ sent.response.status = 200
    /\ IsSuccess(sent.response.body)
    /\ DOMAIN Data = {"aggregations", "stats"}
    /\ Data.stats.totalMatched = Len(Passing)
    /\ Data.aggregations =
         IF Data.stats.totalMatched >= 1
         THEN << <<sUnknown, Data.stats.totalMatched>> >>
         ELSE <<>>

\* All three records of a snapshot counted under unknown, or the one woman
\* of three records
C30_SeveralUnderUnknown ==
  /\ GroupsByOtherField
  /\ Len(Val(sent.from)) = 3
  /\ \/ Data.aggregations = << <<sUnknown, 3>> >>
     \/ /\ Data.aggregations = << <<sUnknown, 1>> >>
        /\ sent.call.body.query = QueryFemaleByMedication

====
